---- MODULE Spec2Model ----
(***************************************************************************)
(* Model of the call-scoped tracing subsystem of openfhe-development:      *)
(*   - the buffered text tracer   (src/core/include/utils/simpletracer.h)  *)
(*   - the Null backend           (src/core/include/utils/tracing.h)       *)
(*   - the IR backend             (src/core/include/utils/mlirtracer.h)    *)
(*   - the protobuf backend       (HeraclesTracer, two revisions)          *)
(* Each backend has its own specification over the shared variables; a     *)
(* backend's Init fixes the variables it does not use and its actions      *)
(* leave them unchanged.                                                   *)
(***************************************************************************)
EXTENDS Integers, Sequences, FiniteSets, TLC

VARIABLES
    backend,       \* which Tracer the host installed
    m_uniqueID,    \* hash -> symbolic name            (Tracer::m_uniqueID)
    m_counters,    \* type tag -> last ordinal minted  (Tracer::m_counters)
    resolved,      \* history: <<hash, name>> of every registry lookup rendered
    m_level,       \* SimpleTracer::m_level / NullTracer::level
    scopes,        \* open FunctionTracer handles: id -> fields of the handle
    opened,        \* number of StartFunctionTrace / TraceDataUpdate calls so far
    regs,          \* number of registration calls made so far
    stream,        \* lines written to *m_stream
    ret,           \* the call just made, if a registerOutput: its argument and return value
    lifo,          \* history: every scope so far was closed innermost-first
    m_idMap,       \* MlirTracer::m_idMap: address -> SSA name
    m_instructions,      \* HeraclesTracer::m_instructions
    m_dataObjectPool,    \* HeraclesTracer::m_dataObjectPool: name -> elements
    m_cryptoContext,     \* HeraclesTracer::m_cryptoContext
    m_scheme,            \* HeraclesTracer::m_scheme
    m_cachedFHETrace,    \* HeraclesTracer::m_cachedFHETrace
    m_cachedContext,     \* HeraclesTracer::m_cachedContext
    m_cachedTestVector,  \* HeraclesTracer::m_cachedTestVector
    derived,       \* history: derivations of each artifact since the last reset / setContext
    calls,         \* number of calls made on the HeraclesTracer itself
    files,         \* the names of the files written so far
    got,           \* the call just made, if a getter or a saver: what it returned or stored
    m_FHETrace,    \* heraclestracer.h HeraclesTracer::m_FHETrace
    m_FHEContext,  \* heraclestracer.h HeraclesTracer::m_FHEContext
    m_TestVector,  \* heraclestracer.h HeraclesTracer::m_TestVector
    m_context,     \* heraclestracer.h HeraclesTracer::m_context
    pc,            \* per thread: the statement of getObjectId / storeData it is at
    tlocal,        \* per thread: the locals of the call it is in
    m_mutex        \* HeraclesTracer::m_mutex: 0 when free, else the thread holding it

regVars   == <<m_uniqueID, m_counters, resolved>>
scopeVars == <<m_level, scopes, opened, regs, stream, ret, lifo>>
protoVars == <<m_instructions, m_dataObjectPool, m_cryptoContext, m_scheme, m_cachedFHETrace,
               m_cachedContext, m_cachedTestVector, derived, calls, files, got>>
wipVars   == <<m_FHETrace, m_FHEContext, m_TestVector, m_context>>
thrVars   == <<pc, tlocal, m_mutex>>

vars == <<backend, regVars, scopeVars, m_idMap, protoVars, wipVars, thrVars>>

\* what the actions of the text tracer and of the Null backend leave alone
plainFrame == <<backend, m_idMap, protoVars, wipVars, thrVars>>

(***************************************************************************)
(* Host objects.  A host object handle is a shared pointer: an address     *)
(* (0 is nullptr) and the bytes its pointee serializes to.  Two addresses  *)
(* may hold content-equal objects (copies).                                *)
(***************************************************************************)
NCt == 3        \* ciphertext addresses 1..NCt; one plaintext at address NCt+1

\* elems: the number of polynomials GetElements() holds
NullObj == [kind |-> "null", ptr |-> 0, bytes |-> 0, elems |-> 0]

\* ciphertexts at addresses 2k-1 and 2k are copies of each other
Ciphertexts == {[kind |-> "ct", ptr |-> a, bytes |-> (a + 1) \div 2, elems |-> 2] : a \in 1..NCt}
Plaintexts  == {[kind |-> "pt", ptr |-> NCt + 1, bytes |-> NCt + 1, elems |-> 1]}

\* a default-constructed ciphertext: a valid pointer, no elements
EmptyCt == [kind |-> "ct", ptr |-> NCt + 2, bytes |-> NCt + 2, elems |-> 0]

\* Serial::Serialize(obj, stream, SerType::BINARY): the bytes of the pointee
Serialize(obj) == obj.bytes

\* HashUtil::HashString: a digest, equal exactly for equal byte strings
HashString(bytes) == <<"sha256", bytes>>

NoId == <<"none", 0>>

\* type + "_" + std::to_string(n)
MakeId(type, n) == <<type, n>>

TypeTags == {"ciphertext", "const_ciphertext", "plaintext"}

Lookup(uid, h) == IF h \in DOMAIN uid THEN uid[h] ELSE NoId

(***************************************************************************)
(* SimpleFunctionTracer (simpletracer.h): registry helpers                 *)
(***************************************************************************)
\* a registry with one counter shared by all type tags
generateObjectId_shared(ctr, type) ==
    LET n == ctr["ciphertext"] + ctr["const_ciphertext"] + ctr["plaintext"] + 1
    IN  [ctr |-> [ctr EXCEPT ![type] = @ + 1], id |-> MakeId(type, n)]

\* generateObjectId: size_t& counter = m_counters[type]; type_<++counter>
generateObjectId(ctr, type) ==
    [ctr |-> [ctr EXCEPT ![type] = @ + 1], id |-> MakeId(type, ctr[type] + 1)]

\* a helper that never consults m_uniqueID and mints a name on every call
registerObjectHelper_nolookup(reg, obj, type, name, target) ==
    LET hash == HashString(Serialize(obj))
        g == [ctr |-> [reg.ctr EXCEPT ![type] = @ + 1], id |-> MakeId(type, reg.ctr[type] + 1)]
    IN  [uid |-> (hash :> g.id) @@ reg.uid, ctr |-> g.ctr, hash |-> hash, id |-> g.id,
         target |-> Append(target, [name |-> name, id |-> g.id])]

\* a helper that reuses the name of a known hash and still advances the counter
registerObjectHelper_recount(reg, obj, type, name, target) ==
    LET hash == HashString(Serialize(obj))
        g == generateObjectId(reg.ctr, type)
    IN  IF hash \in DOMAIN reg.uid
        THEN [uid |-> reg.uid, ctr |-> g.ctr, hash |-> hash, id |-> reg.uid[hash],
              target |-> Append(target, [name |-> name, id |-> reg.uid[hash]])]
        ELSE [uid |-> (hash :> g.id) @@ reg.uid, ctr |-> g.ctr, hash |-> hash, id |-> g.id,
              target |-> Append(target, [name |-> name, id |-> g.id])]

\* a helper that reuses a name only under the tag it was minted with, and
\* mints a new one when a known hash comes under another tag
registerObjectHelper_retag(reg, obj, type, name, target) ==
    LET hash == HashString(Serialize(obj))
        g == generateObjectId(reg.ctr, type)
    IN  IF hash \in DOMAIN reg.uid /\ reg.uid[hash][1] = type
        THEN [uid |-> reg.uid, ctr |-> reg.ctr, hash |-> hash, id |-> reg.uid[hash],
              target |-> Append(target, [name |-> name, id |-> reg.uid[hash]])]
        ELSE [uid |-> (hash :> g.id) @@ reg.uid, ctr |-> g.ctr, hash |-> hash, id |-> g.id,
              target |-> Append(target, [name |-> name, id |-> g.id])]

\* registerObjectHelper(obj, type, name, target) on the registry reg = [uid, ctr]
registerObjectHelper(reg, obj, type, name, target) ==
    LET hash == HashString(Serialize(obj))
    IN  IF hash \in DOMAIN reg.uid
        THEN [uid |-> reg.uid, ctr |-> reg.ctr, hash |-> hash, id |-> reg.uid[hash],
              target |-> Append(target, [name |-> name, id |-> reg.uid[hash]])]
        ELSE LET g == generateObjectId(reg.ctr, type)
             IN  [uid |-> (hash :> g.id) @@ reg.uid, ctr |-> g.ctr, hash |-> hash, id |-> g.id,
                  target |-> Append(target, [name |-> name, id |-> g.id])]

\* registerObjectsHelper(objects, {}, type, target): every object under the empty name
RECURSIVE registerObjectsHelper(_, _, _, _, _)
registerObjectsHelper(reg, objects, type, target, seen) ==
    IF objects = <<>>
    THEN [uid |-> reg.uid, ctr |-> reg.ctr, target |-> target, seen |-> seen]
    ELSE LET r == registerObjectHelper(reg, Head(objects), type, "", target)
         IN  registerObjectsHelper([uid |-> r.uid, ctr |-> r.ctr], Tail(objects), type,
                                   r.target, seen \cup {<<r.hash, r.id>>})

(***************************************************************************)
(* registerOutput(std::vector<Ciphertext>): hashes each element, stops     *)
(* after the element with index 10                                         *)
(***************************************************************************)
VecBreakIndex == 10     \* "if (i >= 10)"

NoMore == -1

RECURSIVE registerVectorLoop(_, _, _, _, _, _)
registerVectorLoop(reg, vec, i, type, ids, seen) ==
    IF i >= Len(vec)
    THEN [uid |-> reg.uid, ctr |-> reg.ctr, ids |-> ids, more |-> NoMore, seen |-> seen]
    ELSE LET hash == HashString(Serialize(vec[i + 1]))
             hit  == hash \in DOMAIN reg.uid
             g    == generateObjectId(reg.ctr, type)
             id   == IF hit THEN reg.uid[hash] ELSE g.id
             reg2 == IF hit THEN reg ELSE [uid |-> (hash :> g.id) @@ reg.uid, ctr |-> g.ctr]
             seen2 == seen \cup {<<hash, id>>}
         IN  IF i >= VecBreakIndex
             THEN [uid |-> reg2.uid, ctr |-> reg2.ctr, ids |-> Append(ids, id),
                   more |-> Len(vec) - i - 1, seen |-> seen2]
             ELSE registerVectorLoop(reg2, vec, i + 1, type, Append(ids, id), seen2)

(***************************************************************************)
(* Bounds of the text-tracer specification                                 *)
(***************************************************************************)
MaxOps == 3         \* StartFunctionTrace and registration calls in one run

Names     == {"x"}
FuncNames == {"EvalAdd"}
Values    == {7}

\* the vectors and initializer lists the host passes: none, the two copies
\* at addresses 1 and 2, the ciphertext at address 3
CtAt(a) == CHOOSE c \in Ciphertexts : c.ptr = a
CtLists == {<<>>, <<CtAt(1), CtAt(2)>>, <<CtAt(3)>>}

\* kind: which overload returned ("none": the call just made was no registerOutput)
NoRet == [kind |-> "none", arg |-> 0, val |-> 0]

Registry == [uid |-> m_uniqueID, ctr |-> m_counters]

OpenScopes == DOMAIN scopes

Max(S) == CHOOSE x \in S : \A y \in S : y <= x

\* the object types a host handle can be registered under
TagsOf(obj) == IF obj.kind = "pt" THEN {"plaintext"} ELSE {"ciphertext", "const_ciphertext"}

\* a cache, a context or a document that is not there (a null unique_ptr)
None == [kind |-> "none"]

NoGot == [call |-> "none", val |-> None]

Threads == {1, 2}

\* the registry of a freshly constructed tracer
RegistryInit ==
    /\ m_uniqueID = <<>>
    /\ m_counters = [t \in TypeTags |-> 0]
    /\ resolved = {}

\* no scope opened yet, nothing written
ScopeInit ==
    /\ m_level = 0
    /\ scopes = <<>>
    /\ opened = 0
    /\ regs = 0
    /\ stream = <<>>
    /\ ret = NoRet
    /\ lifo = TRUE

\* HeraclesTracer(filename): no context, default scheme, nothing recorded
ProtoInit ==
    /\ m_instructions = <<>>
    /\ m_dataObjectPool = <<>>
    /\ m_cryptoContext = None
    /\ m_scheme = "SCHEME_CKKS"
    /\ m_cachedFHETrace = None
    /\ m_cachedContext = None
    /\ m_cachedTestVector = None
    /\ derived = [a \in {"trace", "context", "testvector"} |-> 0]
    /\ calls = 0
    /\ files = {}
    /\ got = NoGot

\* the documents of the in-progress HeraclesTracer, when it is not the backend
NoWip ==
    /\ m_FHETrace = None
    /\ m_FHEContext = None
    /\ m_TestVector = None
    /\ m_context = None

ThreadInit ==
    /\ pc = [t \in Threads |-> "idle"]
    /\ tlocal = [t \in Threads |-> None]
    /\ m_mutex = 0

\* SimpleTracer(filename)
TextInit ==
    /\ backend = "text"
    /\ RegistryInit /\ ScopeInit
    /\ m_idMap = <<>>
    /\ ProtoInit /\ NoWip /\ ThreadInit

\* a StartFunctionTrace that writes the scope's header line at once, as the
\* streaming revision of the text tracer does
StartFunctionTrace_streaming(func, type, cts) ==
    /\ backend = "text"
    /\ opened + regs < MaxOps
    /\ LET r == registerObjectsHelper(Registry, cts, type, <<>>, {})
           sid == opened + 1
           sc == [m_func |-> func, m_level |-> m_level, m_inputs |-> r.target,
                  m_outputs |-> <<>>, parents |-> OpenScopes]
       IN  /\ scopes' = (sid :> sc) @@ scopes
           /\ stream' = Append(stream, [sid |-> sid, parents |-> sc.parents, tabs |-> sc.m_level,
                                        func |-> func, inputs |-> <<>>, outputs |-> <<>>])
           /\ m_uniqueID' = r.uid
           /\ m_counters' = r.ctr
           /\ resolved' = resolved \cup r.seen
    /\ m_level' = m_level + 1
    /\ opened' = opened + 1
    /\ ret' = NoRet
    /\ UNCHANGED <<lifo, regs, plainFrame>>

\* SimpleTracer::StartFunctionTrace(func [, ciphertexts]): level = m_level++
StartFunctionTrace(func, type, cts) ==
    /\ backend = "text"
    /\ opened + regs < MaxOps
    /\ LET r == registerObjectsHelper(Registry, cts, type, <<>>, {})
           sid == opened + 1
       IN  /\ scopes' = (sid :> [m_func |-> func, m_level |-> m_level, m_inputs |-> r.target,
                                 m_outputs |-> <<>>, parents |-> OpenScopes]) @@ scopes
           /\ m_uniqueID' = r.uid
           /\ m_counters' = r.ctr
           /\ resolved' = resolved \cup r.seen
    /\ m_level' = m_level + 1
    /\ opened' = opened + 1
    /\ ret' = NoRet
    /\ UNCHANGED <<stream, lifo, regs, plainFrame>>

\* registerInput(Ciphertext | ConstCiphertext | Plaintext, name)
RegisterInput(s, obj, type, name) ==
    /\ backend = "text"
    /\ s \in OpenScopes
    /\ opened + regs < MaxOps
    /\ LET r == registerObjectHelper(Registry, obj, type, name, scopes[s].m_inputs)
       IN  /\ scopes' = [scopes EXCEPT ![s].m_inputs = r.target]
           /\ m_uniqueID' = r.uid
           /\ m_counters' = r.ctr
           /\ resolved' = resolved \cup {<<r.hash, r.id>>}
    /\ regs' = regs + 1
    /\ ret' = NoRet
    /\ UNCHANGED <<m_level, opened, stream, lifo, plainFrame>>

\* registerInput(int64_t value, name): name + " " + to_string(value) + " : int64_t"
RegisterInputValue(s, v, name) ==
    /\ backend = "text"
    /\ s \in OpenScopes
    /\ opened + regs < MaxOps
    /\ scopes' = [scopes EXCEPT ![s].m_inputs =
                     Append(@, [name |-> name, value |-> v, type |-> "int64_t"])]
    /\ regs' = regs + 1
    /\ ret' = NoRet
    /\ UNCHANGED <<regVars, m_level, opened, stream, lifo, plainFrame>>

\* registerOutput(Ciphertext | ConstCiphertext | Plaintext, name): returns its argument
SimpleRegisterOutput(reg, obj, type, name, target) ==
    LET r == registerObjectHelper(reg, obj, type, name, target)
    IN  [uid |-> r.uid, ctr |-> r.ctr, hash |-> r.hash, id |-> r.id,
         target |-> r.target, ret |-> obj]

RegisterOutput(s, obj, type, name) ==
    /\ backend = "text"
    /\ s \in OpenScopes
    /\ opened + regs < MaxOps
    /\ LET r == SimpleRegisterOutput(Registry, obj, type, name, scopes[s].m_outputs)
       IN  /\ scopes' = [scopes EXCEPT ![s].m_outputs = r.target]
           /\ m_uniqueID' = r.uid
           /\ m_counters' = r.ctr
           /\ resolved' = resolved \cup {<<r.hash, r.id>>}
           /\ ret' = [kind |-> "handle", arg |-> obj, val |-> r.ret]
    /\ regs' = regs + 1
    /\ UNCHANGED <<m_level, opened, stream, lifo, plainFrame>>

\* registerOutput(std::vector<Ciphertext>, name): one entry listing the elements' ids
SimpleRegisterOutputVector(reg, vec, name, target) ==
    LET r == registerVectorLoop(reg, vec, 0, "ciphertext", <<>>, {})
    IN  [uid |-> r.uid, ctr |-> r.ctr, seen |-> r.seen,
         target |-> Append(target, [name |-> name, ids |-> r.ids, more |-> r.more,
                                    type |-> "vector<Ciphertext>"]),
         ret |-> vec]

RegisterOutputVector(s, vec, name) ==
    /\ backend = "text"
    /\ s \in OpenScopes
    /\ opened + regs < MaxOps
    /\ LET r == SimpleRegisterOutputVector(Registry, vec, name, scopes[s].m_outputs)
       IN  /\ scopes' = [scopes EXCEPT ![s].m_outputs = r.target]
           /\ m_uniqueID' = r.uid
           /\ m_counters' = r.ctr
           /\ resolved' = resolved \cup r.seen
           /\ ret' = [kind |-> "vector", arg |-> vec, val |-> r.ret]
    /\ regs' = regs + 1
    /\ UNCHANGED <<m_level, opened, stream, lifo, plainFrame>>

\* registerOutput(int64_t value, name)
SimpleRegisterOutputValue(v, name, target) ==
    [target |-> Append(target, [name |-> name, value |-> v, type |-> "int64_t"]), ret |-> v]

RegisterOutputValue(s, v, name) ==
    /\ backend = "text"
    /\ s \in OpenScopes
    /\ opened + regs < MaxOps
    /\ LET r == SimpleRegisterOutputValue(v, name, scopes[s].m_outputs)
       IN  /\ scopes' = [scopes EXCEPT ![s].m_outputs = r.target]
           /\ ret' = [kind |-> "int64_t", arg |-> v, val |-> r.ret]
    /\ regs' = regs + 1
    /\ UNCHANGED <<regVars, m_level, opened, stream, lifo, plainFrame>>

\* an EndFunction that leaves the level where it is
EndFunction_keep(level) == level

\* SimpleTracer::EndFunction: if (m_level > 0) --m_level
EndFunction(level) == IF level > 0 THEN level - 1 ELSE level

\* the line ~SimpleFunctionTracer writes: m_level tabs, m_func, printList(inputs),
\* printList(outputs), endl
\* (sid and parents are history labels of the line, not text)
TraceLine(s, sc) ==
    [sid |-> s, parents |-> sc.parents, tabs |-> sc.m_level, func |-> sc.m_func,
     inputs |-> sc.m_inputs, outputs |-> sc.m_outputs]

RemoveKey(f, k) == [x \in DOMAIN f \ {k} |-> f[x]]

\* ~SimpleFunctionTracer: write the line, then m_tracer->EndFunction()
CloseScope(s) ==
    /\ backend = "text"
    /\ s \in OpenScopes
    /\ stream' = Append(stream, TraceLine(s, scopes[s]))
    /\ m_level' = EndFunction(m_level)
    /\ scopes' = RemoveKey(scopes, s)
    /\ lifo' = (lifo /\ s = Max(OpenScopes))
    /\ ret' = NoRet
    /\ UNCHANGED <<regVars, opened, regs, plainFrame>>

TextNext ==
    \/ \E f \in FuncNames, t \in {"ciphertext", "const_ciphertext"},
          cts \in CtLists : StartFunctionTrace(f, t, cts)
    \/ \E s \in OpenScopes, o \in Ciphertexts \cup Plaintexts, n \in Names :
          \E t \in TagsOf(o) : RegisterInput(s, o, t, n)
    \/ \E s \in OpenScopes, v \in Values, n \in Names : RegisterInputValue(s, v, n)
    \/ \E s \in OpenScopes, o \in Ciphertexts \cup Plaintexts, n \in Names :
          \E t \in TagsOf(o) : RegisterOutput(s, o, t, n)
    \/ \E s \in OpenScopes, o \in {NullObj, EmptyCt}, n \in Names :
          RegisterOutput(s, o, "ciphertext", n)
    \/ \E s \in OpenScopes, vec \in CtLists, n \in Names :
          RegisterOutputVector(s, vec, n)
    \/ \E s \in OpenScopes, v \in Values, n \in Names : RegisterOutputValue(s, v, n)
    \/ \E s \in OpenScopes : CloseScope(s)

SpecText == TextInit /\ [][TextNext]_vars

(***************************************************************************)
(* Properties of the hash-based registry and of the buffered text tracer   *)
(***************************************************************************)
Range(f) == {f[x] : x \in DOMAIN f}

SeqRange(q) == {q[i] : i \in 1..Len(q)}

\* the registry entries rendered into a list of a scope or of a line
IdsIn(list) == {e.id : e \in {x \in SeqRange(list) : "id" \in DOMAIN x}}

\* C1: identity stability.  Every registration resolves its content hash to
\* one symbolic name: two lookups of the same hash, whatever the instance,
\* scope, list (inputs or outputs) and order, were rendered with the same
\* name, and that name is the one the registry holds for the hash.
IdentityStability ==
    /\ \A p \in resolved, q \in resolved : p[1] = q[1] => p[2] = q[2]
    /\ \A p \in resolved : Lookup(m_uniqueID, p[1]) = p[2]

\* a closed scope registered the copies at addresses 1 and 2 from its
\* initializer list, and a later scope has just registered the copy at
\* address 2 as an output under the same name
IdentityStabilityWitness ==
    /\ ret.kind = "handle" /\ ret.arg = CtAt(2)
    /\ \E i \in 1..Len(stream), s \in OpenScopes :
          /\ Len(stream[i].inputs) = 2
          /\ stream[i].inputs[1].name = "" /\ stream[i].inputs[2].name = ""
          /\ stream[i].inputs[1].id = stream[i].inputs[2].id
          /\ stream[i].inputs[1].id \in IdsIn(scopes[s].m_outputs)
          /\ stream[i].inputs[1].id = Lookup(m_uniqueID, HashString(Serialize(CtAt(2))))

\* the names minted so far under a type tag
MintedUnder(t) == {id \in Range(m_uniqueID) : id[1] = t}

OrdinalsExact ==
    /\ \A t \in TypeTags : MintedUnder(t) = {MakeId(t, n) : n \in 1..m_counters[t]}
    /\ \A h1 \in DOMAIN m_uniqueID, h2 \in DOMAIN m_uniqueID :
          m_uniqueID[h1] = m_uniqueID[h2] => h1 = h2

OrdinalsStep ==
    /\ \A t \in TypeTags : m_counters'[t] >= m_counters[t]
    /\ \A h \in DOMAIN m_uniqueID : h \in DOMAIN m_uniqueID' /\ m_uniqueID'[h] = m_uniqueID[h]
    /\ \A h \in DOMAIN m_uniqueID' \ DOMAIN m_uniqueID :
          LET t == m_uniqueID'[h][1]
          IN  m_counters[t] < m_uniqueID'[h][2] /\ m_uniqueID'[h][2] <= m_counters'[t]

\* C2: ordinal monotonicity.  Under each type tag the names minted are
\* exactly tag_1 .. tag_k with k the tag's counter, no name is held by two
\* hashes, counters never decrease, a name once minted is never changed, and
\* a newly minted ordinal lies above the tag's previous counter, whatever was
\* registered under the other tags in between.
OrdinalMonotonicity == []OrdinalsExact /\ [][OrdinalsStep]_vars

\* two ciphertext contents and a plaintext have been registered
OrdinalMonotonicityWitness ==
    /\ m_counters["ciphertext"] + m_counters["const_ciphertext"] = 2
    /\ m_counters["plaintext"] = 1
    /\ Cardinality(DOMAIN m_uniqueID) = 3

\* C4: scope nesting.  Every line is indented by the number of scopes that
\* were open when its scope was opened; and when scopes are closed
\* innermost-first, a scope's line comes after the lines of all the scopes
\* opened inside it, each of which has strictly more tabs.
ScopeNesting ==
    /\ \A s \in OpenScopes : scopes[s].m_level = Cardinality(scopes[s].parents)
    /\ \A i \in 1..Len(stream) : stream[i].tabs = Cardinality(stream[i].parents)
    /\ lifo =>
          \A i \in 1..Len(stream) :
             /\ \A b \in OpenScopes : stream[i].sid \notin scopes[b].parents
             /\ \A j \in 1..Len(stream) :
                   stream[i].sid \in stream[j].parents
                      => j < i /\ stream[j].tabs > stream[i].tabs

\* scope 1 opened, scope 2 opened inside it, 2 closed, then 1 closed
ScopeNestingWitness ==
    /\ lifo
    /\ Len(stream) = 2
    /\ stream[1].sid = 2 /\ stream[1].parents = {1} /\ stream[1].tabs = 1
    /\ stream[2].sid = 1 /\ stream[2].tabs = 0

LinesOf(s) == {i \in 1..Len(stream) : stream[i].sid = s}

OneLinePerClosedScope ==
    /\ Len(stream) = opened - Cardinality(OpenScopes)
    /\ \A s \in OpenScopes : LinesOf(s) = {}
    /\ \A s \in (1..opened) \ OpenScopes : Cardinality(LinesOf(s)) = 1

StreamStep ==
    \/ stream' = stream /\ OpenScopes \subseteq DOMAIN scopes'
    \/ /\ Len(stream') = Len(stream) + 1
       /\ SubSeq(stream', 1, Len(stream)) = stream
       /\ \E s \in OpenScopes :
             /\ DOMAIN scopes' = OpenScopes \ {s}
             /\ stream'[Len(stream')] = TraceLine(s, scopes[s])

\* C5: exactly-once finalization.  An open scope has no line in the stream,
\* a closed scope has exactly one, so the stream holds as many lines as
\* scopes were closed; a step either leaves the stream alone and closes no
\* scope, or closes one scope and appends that scope's line, leaving every
\* line already written as it was.
ExactlyOnceFinalization == []OneLinePerClosedScope /\ [][StreamStep]_vars

\* one scope is closed and written; a second is open, has registered an
\* output, and has written nothing
ExactlyOnceFinalizationWitness ==
    /\ Len(stream) = 1
    /\ \E s \in OpenScopes : scopes[s].m_outputs # <<>> /\ LinesOf(s) = {}

(***************************************************************************)
(* The Null backend (tracing.h): NullTracer hands out handles whose every  *)
(* method has an empty body                                                *)
(***************************************************************************)
NullInit ==
    /\ backend = "null"
    /\ RegistryInit /\ ScopeInit
    /\ m_idMap = <<>>
    /\ ProtoInit /\ NoWip /\ ThreadInit

FunctionHandles == {s \in OpenScopes : scopes[s].handle = "NullFunctionTracer"}
DataHandles     == {s \in OpenScopes : scopes[s].handle = "NullDataTracer"}

\* NullTracer::StartFunctionTrace (all three overloads):
\* return std::make_unique<NullFunctionTracer<Element>>()
NullStartFunctionTrace(func, cts) ==
    /\ backend = "null"
    /\ opened + regs < MaxOps
    /\ scopes' = ((opened + 1) :> [handle |-> "NullFunctionTracer"]) @@ scopes
    /\ opened' = opened + 1
    /\ ret' = NoRet
    /\ UNCHANGED <<regVars, m_level, regs, stream, lifo, plainFrame>>

\* NullTracer::TraceDataUpdate: return std::make_unique<NullDataTracer<Element>>()
NullTraceDataUpdate(func) ==
    /\ backend = "null"
    /\ opened + regs < MaxOps
    /\ scopes' = ((opened + 1) :> [handle |-> "NullDataTracer"]) @@ scopes
    /\ opened' = opened + 1
    /\ ret' = NoRet
    /\ UNCHANGED <<regVars, m_level, regs, stream, lifo, plainFrame>>

\* NullFunctionTracer::registerInput / registerInputs (handles, values, lists): {}
NullRegisterInput(s, x) ==
    /\ backend = "null"
    /\ s \in FunctionHandles
    /\ opened + regs < MaxOps
    /\ regs' = regs + 1
    /\ ret' = NoRet
    /\ UNCHANGED <<regVars, m_level, scopes, opened, stream, lifo, plainFrame>>

\* NullDataTracer::registerSource (every overload): {}
NullRegisterSource(d, obj) ==
    /\ backend = "null"
    /\ d \in DataHandles
    /\ opened + regs < MaxOps
    /\ regs' = regs + 1
    /\ ret' = NoRet
    /\ UNCHANGED <<regVars, m_level, scopes, opened, stream, lifo, plainFrame>>

\* NullDataTracer::registerDestination (every overload): {}
NullRegisterDestination(d, obj) ==
    /\ backend = "null"
    /\ d \in DataHandles
    /\ opened + regs < MaxOps
    /\ regs' = regs + 1
    /\ ret' = NoRet
    /\ UNCHANGED <<regVars, m_level, scopes, opened, stream, lifo, plainFrame>>

\* a registerOutput that hands back a default-constructed handle
NullFunctionTracer_registerOutput_empty(obj) == NullObj

\* NullFunctionTracer::registerOutput(Ciphertext | ConstCiphertext | Plaintext | key ...):
\* return ciphertext;
NullFunctionTracer_registerOutput(obj) == obj

NullRegisterOutput(s, obj) ==
    /\ backend = "null"
    /\ s \in FunctionHandles
    /\ opened + regs < MaxOps
    /\ ret' = [kind |-> "handle", arg |-> obj, val |-> NullFunctionTracer_registerOutput(obj)]
    /\ regs' = regs + 1
    /\ UNCHANGED <<regVars, m_level, scopes, opened, stream, lifo, plainFrame>>

\* NullFunctionTracer::registerOutput(std::vector<Ciphertext<Element>>): return ciphertexts;
NullRegisterOutputVector(s, vec) ==
    /\ backend = "null"
    /\ s \in FunctionHandles
    /\ opened + regs < MaxOps
    /\ ret' = [kind |-> "vector", arg |-> vec, val |-> vec]
    /\ regs' = regs + 1
    /\ UNCHANGED <<regVars, m_level, scopes, opened, stream, lifo, plainFrame>>

\* NullFunctionTracer::registerOutput(const std::string&): return value;
NullRegisterOutputString(s, str) ==
    /\ backend = "null"
    /\ s \in FunctionHandles
    /\ opened + regs < MaxOps
    /\ ret' = [kind |-> "string", arg |-> str, val |-> str]
    /\ regs' = regs + 1
    /\ UNCHANGED <<regVars, m_level, scopes, opened, stream, lifo, plainFrame>>

\* ~NullFunctionTracer, ~NullDataTracer: = default
NullCloseScope(s) ==
    /\ backend = "null"
    /\ s \in OpenScopes
    /\ scopes' = RemoveKey(scopes, s)
    /\ lifo' = (lifo /\ s = Max(OpenScopes))
    /\ ret' = NoRet
    /\ UNCHANGED <<regVars, m_level, opened, regs, stream, plainFrame>>

HostObjects == Ciphertexts \cup Plaintexts \cup {NullObj, EmptyCt}

Strings == {"done"}

NullNext ==
    \/ \E f \in FuncNames, cts \in CtLists : NullStartFunctionTrace(f, cts)
    \/ \E f \in FuncNames : NullTraceDataUpdate(f)
    \/ \E s \in OpenScopes, o \in HostObjects : NullRegisterInput(s, o)
    \/ \E s \in OpenScopes, v \in Values : NullRegisterInput(s, v)
    \/ \E d \in OpenScopes, o \in HostObjects : NullRegisterSource(d, o)
    \/ \E d \in OpenScopes, o \in HostObjects : NullRegisterDestination(d, o)
    \/ \E s \in OpenScopes, o \in HostObjects : NullRegisterOutput(s, o)
    \/ \E s \in OpenScopes, vec \in CtLists : NullRegisterOutputVector(s, vec)
    \/ \E s \in OpenScopes, str \in Strings : NullRegisterOutputString(s, str)
    \/ \E s \in OpenScopes : NullCloseScope(s)

SpecNull == NullInit /\ [][NullNext]_vars

\* the handles a NullTracer hands out hold no fields
NullHandlesOnly ==
    \A s \in OpenScopes : scopes[s] \in {[handle |-> "NullFunctionTracer"], [handle |-> "NullDataTracer"]}

\* C6: Null-backend zero effect.  Whatever was called on a NullTracer and its
\* handles, nothing has been written to a stream or a file, the tracer's
\* state is as constructed (level 0, empty registry, no instruction, no
\* data), the handles hold no record, a registerOutput just made returned its
\* argument, and every open handle can be closed.
NullZeroEffect ==
    /\ stream = <<>> /\ files = {}
    /\ m_level = 0
    /\ m_uniqueID = <<>> /\ m_counters = [t \in TypeTags |-> 0] /\ m_idMap = <<>>
    /\ m_instructions = <<>> /\ m_dataObjectPool = <<>>
    /\ NullHandlesOnly
    /\ ret.kind # "none" => ret.val = ret.arg
    /\ \A s \in OpenScopes : ENABLED NullCloseScope(s)

\* a data handle and a function handle are open, and a registerOutput of a
\* ciphertext on the function handle has just returned
NullZeroEffectWitness ==
    /\ backend = "null"
    /\ DataHandles # {} /\ FunctionHandles # {}
    /\ ret.kind = "handle" /\ ret.arg \in Ciphertexts

(***************************************************************************)
(* The IR backend (mlirtracer.h): names are keyed by the address of the    *)
(* pointee; a scope writes one operation line when it closes               *)
(***************************************************************************)
Prefixes == {"ct", "pt"}

\* MlirTracer::GetId: the prefix chosen from the type string
PrefixOf(type) == IF type = "ciphertext" THEN "ct" ELSE IF type = "plaintext" THEN "pt" ELSE "obj"

\* MlirTracer::GetType
GetType(type) ==
    IF type = "ciphertext" THEN "!lwe.ct" ELSE IF type = "plaintext" THEN "!lwe.pt" ELSE "!openfhe.obj"

\* MlirTracer::GetId(ptr, type) on the maps m = [ids, ctr]
GetId(m, ptr, type) ==
    IF ptr \in DOMAIN m.ids
    THEN [ids |-> m.ids, ctr |-> m.ctr, id |-> m.ids[ptr]]
    ELSE LET prefix == PrefixOf(type)
             value  == <<prefix, m.ctr[prefix] + 1>>
         IN  [ids |-> (ptr :> value) @@ m.ids, ctr |-> [m.ctr EXCEPT ![prefix] = @ + 1],
              id |-> value]

\* MlirTracer::m_funcMap
\* (strings are spelled as sequences of characters, so that they can be
\* scanned; the table is cut down to three of its fifteen entries)
m_funcMap ==
    (<<"E", "v", "a", "l", "A", "d", "d">> :> <<"a", "d", "d">>)
    @@ (<<"E", "v", "a", "l", "S", "u", "b">> :> <<"s", "u", "b">>)
    @@ (<<"E", "v", "a", "l", "A", "t">> :> <<"r", "o", "t">>)

\* the spelling of a function name of the model
Chars == [f \in {"EvalAdd"} |-> <<"E", "v", "a", "l", "A", "d", "d">>]

\* tolower on the letters for which isupper holds
LowerOf == ("A" :> "a") @@ ("E" :> "e") @@ ("S" :> "s")

\* the loop of ConvertFuncToOp from index i (0-based)
RECURSIVE ConvertLoop(_, _, _)
ConvertLoop(func, i, result) ==
    IF i >= Len(func) THEN result
    ELSE LET c == func[i + 1]
         IN  IF c \in DOMAIN LowerOf
             THEN ConvertLoop(func, i + 1,
                              (IF i > 0 THEN Append(result, "_") ELSE result) \o <<LowerOf[c]>>)
             ELSE ConvertLoop(func, i + 1, Append(result, c))

\* a conversion that puts the underscore in front of a leading capital too
ConvertFuncToOp_leading(func) ==
    IF func \in DOMAIN m_funcMap THEN m_funcMap[func]
    ELSE LET r == ConvertLoop(func, 0, <<>>)
         IN  IF func # <<>> /\ func[1] \in DOMAIN LowerOf THEN <<"_">> \o r ELSE r

\* MlirTracer::ConvertFuncToOp: the mapped name, else the name in snake case
ConvertFuncToOp(func) ==
    IF func \in DOMAIN m_funcMap THEN m_funcMap[func] ELSE ConvertLoop(func, 0, <<>>)

\* the type string an overload passes for its handle
TypeOf(obj) == IF obj.kind = "pt" THEN "plaintext" ELSE "ciphertext"

\* MlirFunctionTracer::addInput / addOutput: "%" + id and the IR type, appended
addOperand(m, names, types, obj) ==
    LET g == GetId(m, obj.ptr, TypeOf(obj))
    IN  [ids |-> g.ids, ctr |-> g.ctr, names |-> Append(names, <<"%", g.id>>),
         types |-> Append(types, GetType(TypeOf(obj)))]

RECURSIVE MlirRegisterInputs(_, _, _, _)
MlirRegisterInputs(m, names, types, cts) ==
    IF cts = <<>>
    THEN [ids |-> m.ids, ctr |-> m.ctr, names |-> names, types |-> types]
    ELSE LET r == addOperand(m, names, types, Head(cts))
         IN  MlirRegisterInputs([ids |-> r.ids, ctr |-> r.ctr], r.names, r.types, Tail(cts))

IdMaps == [ids |-> m_idMap, ctr |-> m_counters]

mlirFrame == <<backend, resolved, m_uniqueID, m_level, lifo, protoVars, wipVars, thrVars>>

\* MlirTracer(stream)
MlirInit ==
    /\ backend = "ir"
    /\ m_uniqueID = <<>> /\ resolved = {}
    /\ m_counters = [p \in Prefixes |-> 0]
    /\ m_idMap = <<>>
    /\ ScopeInit
    /\ ProtoInit /\ NoWip /\ ThreadInit

\* MlirTracer::StartFunctionTrace(func [, ciphertexts])
MlirStartFunctionTrace(func, cts) ==
    /\ backend = "ir"
    /\ opened + regs < MaxOps
    /\ LET r == MlirRegisterInputs(IdMaps, <<>>, <<>>, cts)
       IN  /\ scopes' = ((opened + 1) :> [m_func |-> func, m_inputs |-> r.names,
                                           m_inputTypes |-> r.types, m_outputs |-> <<>>,
                                           m_outputTypes |-> <<>>]) @@ scopes
           /\ m_idMap' = r.ids
           /\ m_counters' = r.ctr
    /\ opened' = opened + 1
    /\ ret' = NoRet
    /\ UNCHANGED <<regs, stream, mlirFrame>>

\* MlirFunctionTracer::registerInput(Ciphertext | ConstCiphertext | Plaintext)
MlirRegisterInput(s, obj) ==
    /\ backend = "ir"
    /\ s \in OpenScopes
    /\ opened + regs < MaxOps
    /\ LET r == addOperand(IdMaps, scopes[s].m_inputs, scopes[s].m_inputTypes, obj)
       IN  /\ scopes' = [scopes EXCEPT ![s].m_inputs = r.names, ![s].m_inputTypes = r.types]
           /\ m_idMap' = r.ids
           /\ m_counters' = r.ctr
    /\ regs' = regs + 1
    /\ ret' = NoRet
    /\ UNCHANGED <<opened, stream, mlirFrame>>

\* MlirFunctionTracer::registerInput(int64_t value): the value's text, typed i64
MlirRegisterInputValue(s, v) ==
    /\ backend = "ir"
    /\ s \in OpenScopes
    /\ opened + regs < MaxOps
    /\ scopes' = [scopes EXCEPT ![s].m_inputs = Append(@, <<"literal", v>>),
                                ![s].m_inputTypes = Append(@, "i64")]
    /\ regs' = regs + 1
    /\ ret' = NoRet
    /\ UNCHANGED <<m_idMap, m_counters, opened, stream, mlirFrame>>

\* MlirFunctionTracer::registerOutput(Ciphertext | ConstCiphertext | Plaintext):
\* addOutput(ptr, type); return the argument
MlirFunctionTracer_registerOutput(m, names, types, obj) ==
    [upd |-> addOperand(m, names, types, obj), ret |-> obj]

MlirRegisterOutput(s, obj) ==
    /\ backend = "ir"
    /\ s \in OpenScopes
    /\ opened + regs < MaxOps
    /\ LET r == MlirFunctionTracer_registerOutput(IdMaps, scopes[s].m_outputs,
                                                   scopes[s].m_outputTypes, obj)
       IN  /\ scopes' = [scopes EXCEPT ![s].m_outputs = r.upd.names,
                                       ![s].m_outputTypes = r.upd.types]
           /\ m_idMap' = r.upd.ids
           /\ m_counters' = r.upd.ctr
           /\ ret' = [kind |-> "handle", arg |-> obj, val |-> r.ret]
    /\ regs' = regs + 1
    /\ UNCHANGED <<opened, stream, mlirFrame>>

\* a line that renders every registered output and every output type
MlirLine_allOutputs(s, sc) ==
    [sid |-> s,
     result |-> sc.m_outputs,
     op |-> <<"openfhe.", ConvertFuncToOp(Chars[sc.m_func])>>,
     inputs |-> sc.m_inputs,
     inputTypes |-> sc.m_inputTypes,
     resultType |-> sc.m_outputTypes]

\* the line ~MlirFunctionTracer writes:
\* [out0 = ] openfhe.<op> [inputs] : (input types) [-> outType0]
MlirLine(s, sc) ==
    [sid |-> s,
     result |-> IF sc.m_outputs # <<>> THEN <<sc.m_outputs[1]>> ELSE <<>>,
     op |-> <<"openfhe.", ConvertFuncToOp(Chars[sc.m_func])>>,
     inputs |-> sc.m_inputs,
     inputTypes |-> sc.m_inputTypes,
     resultType |-> IF sc.m_outputTypes # <<>> THEN <<sc.m_outputTypes[1]>> ELSE <<>>]

\* ~MlirFunctionTracer
MlirCloseScope(s) ==
    /\ backend = "ir"
    /\ s \in OpenScopes
    /\ stream' = Append(stream, MlirLine(s, scopes[s]))
    /\ scopes' = RemoveKey(scopes, s)
    /\ ret' = NoRet
    /\ UNCHANGED <<m_idMap, m_counters, opened, regs, mlirFrame>>

MlirNext ==
    \/ \E f \in FuncNames, cts \in CtLists : MlirStartFunctionTrace(f, cts)
    \/ \E s \in OpenScopes, o \in Ciphertexts \cup Plaintexts : MlirRegisterInput(s, o)
    \/ \E s \in OpenScopes, v \in Values : MlirRegisterInputValue(s, v)
    \/ \E s \in OpenScopes, o \in HostObjects : MlirRegisterOutput(s, o)
    \/ \E s \in OpenScopes : MlirCloseScope(s)

SpecMlir == MlirInit /\ [][MlirNext]_vars

(***************************************************************************)
(* The protobuf backend, complete revision (unnamed/part_005):             *)
(* HeraClesFunctionTracer builds one Instruction per scope; HeraclesTracer *)
(* collects instructions and data and derives the artifacts on demand      *)
(***************************************************************************)
MaxCalls == 2       \* calls on the HeraclesTracer itself in one run

\* calls of any kind in one run of the protobuf backend
HeraBudget == MaxOps + 1

\* the crypto contexts the host passes to the constructor or to setContext
Contexts == {[kind |-> "cc", scheme |-> "BGVRNS_SCHEME"]}

\* setContext: the HERACLES scheme of an OpenFHE scheme id, CKKS by default
SchemeOf(cc) ==
    IF cc.scheme = "CKKSRNS_SCHEME" THEN "SCHEME_CKKS"
    ELSE IF cc.scheme = "BFVRNS_SCHEME" THEN "SCHEME_BFV"
    ELSE IF cc.scheme = "BGVRNS_SCHEME" THEN "SCHEME_BGV"
    ELSE "SCHEME_CKKS"

\* ciphertext->GetElements(): the polynomials of the pointee
GetElements(obj) == [i \in 1..obj.elems |-> <<"poly", obj.bytes, i>>]

\* DCRTPoly::GetNumOfElements(): the host's polynomials have one RNS limb
GetNumOfElements(poly) == 1

\* std::transform(..., ::tolower)
ToLower(func) == IF func = "EvalAdd" THEN "evaladd" ELSE <<"lower", func>>

\* HeraClesFunctionTracer::getObjectId(obj, type) on the registry reg = [uid, ctr]
getObjectId(reg, obj, type) ==
    LET hash == HashString(Serialize(obj))
    IN  IF hash \in DOMAIN reg.uid
        THEN [uid |-> reg.uid, ctr |-> reg.ctr, hash |-> hash, id |-> reg.uid[hash]]
        ELSE LET id == MakeId(type, reg.ctr[type] + 1)
             IN  [uid |-> (hash :> id) @@ reg.uid, ctr |-> [reg.ctr EXCEPT ![type] = @ + 1],
                  hash |-> hash, id |-> id]

\* HeraclesTracer::storeData: if (!dcrtpolys.empty()) m_dataObjectPool[objectId] = dcrtpolys
storeData(pool, objectId, dcrtpolys) ==
    IF dcrtpolys # <<>> THEN (objectId :> dcrtpolys) @@ pool ELSE pool

\* setHERACLESOperandObject
OperandObject(objectId, numRNS, order) ==
    [symbol_name |-> objectId, num_rns |-> numRNS, order |-> order]

\* the part of the tracer and of the scope a registration works on
HeraState(s) ==
    [uid |-> m_uniqueID, ctr |-> m_counters, pool |-> m_dataObjectPool,
     ins |-> scopes[s].m_currentInstruction, inputIds |-> scopes[s].m_inputObjectIds,
     hasOutput |-> scopes[s].m_hasOutput, seen |-> {}]

\* addCiphertextInput: a null or element-less ciphertext is skipped
addCiphertextInput(st, obj) ==
    IF obj.kind = "ct" /\ obj.elems > 0
    THEN LET g == getObjectId([uid |-> st.uid, ctr |-> st.ctr], obj, "ciphertext")
         IN  [st EXCEPT !.uid = g.uid, !.ctr = g.ctr,
                        !.ins.srcs = Append(@, OperandObject(g.id, GetNumOfElements(GetElements(obj)[1]), obj.elems)),
                        !.pool = storeData(@, g.id, GetElements(obj)),
                        !.inputIds = Append(@, g.id),
                        !.seen = @ \cup {<<g.hash, g.id>>}]
    ELSE st

\* addPlaintextInput: a null plaintext is skipped; no data is stored
addPlaintextInput(st, obj) ==
    IF obj.kind = "pt"
    THEN LET g == getObjectId([uid |-> st.uid, ctr |-> st.ctr], obj, "plaintext")
         IN  [st EXCEPT !.uid = g.uid, !.ctr = g.ctr,
                        !.ins.srcs = Append(@, OperandObject(g.id, 0, 1)),
                        !.inputIds = Append(@, g.id),
                        !.seen = @ \cup {<<g.hash, g.id>>}]
    ELSE st

RECURSIVE HeraRegisterInputs(_, _)
HeraRegisterInputs(st, cts) ==
    IF cts = <<>> THEN st ELSE HeraRegisterInputs(addCiphertextInput(st, Head(cts)), Tail(cts))

\* a registerOutput that returns a default-constructed handle
HeraRegisterOutputHandle_empty(st, obj) ==
    [st |-> st, ret |-> NullObj]

\* registerOutput(Ciphertext | ConstCiphertext | Plaintext): a destination
\* operand, the data of a ciphertext, m_hasOutput; returns the argument
HeraRegisterOutputHandle(st, obj) ==
    [st |-> IF obj.kind = "ct" /\ obj.elems > 0
            THEN LET g == getObjectId([uid |-> st.uid, ctr |-> st.ctr], obj, "ciphertext")
                 IN  [st EXCEPT !.uid = g.uid, !.ctr = g.ctr,
                                !.ins.dests = Append(@, OperandObject(g.id, GetNumOfElements(GetElements(obj)[1]), obj.elems)),
                                !.pool = storeData(@, g.id, GetElements(obj)),
                                !.hasOutput = TRUE,
                                !.seen = @ \cup {<<g.hash, g.id>>}]
            ELSE IF obj.kind = "pt"
            THEN LET g == getObjectId([uid |-> st.uid, ctr |-> st.ctr], obj, "plaintext")
                 IN  [st EXCEPT !.uid = g.uid, !.ctr = g.ctr,
                                !.ins.dests = Append(@, OperandObject(g.id, 0, 1)),
                                !.hasOutput = TRUE,
                                !.seen = @ \cup {<<g.hash, g.id>>}]
            ELSE st,
     ret |-> obj]

RECURSIVE HeraRegisterOutputLoop(_, _)
HeraRegisterOutputLoop(st, cts) ==
    IF cts = <<>> THEN st
    ELSE HeraRegisterOutputLoop(HeraRegisterOutputHandle(st, Head(cts)).st, Tail(cts))

protoFrame == <<backend, m_level, stream, lifo, m_idMap, wipVars, thrVars>>
cacheVars  == <<m_cryptoContext, m_scheme, m_cachedFHETrace, m_cachedContext,
                m_cachedTestVector, derived, calls, files>>

\* HeraclesTracer(filename) or HeraclesTracer(filename, cc), which calls setContext(cc)
HeraInit ==
    /\ backend = "protobuf"
    /\ RegistryInit /\ ScopeInit
    /\ m_idMap = <<>>
    /\ m_instructions = <<>>
    /\ m_dataObjectPool = <<>>
    /\ \/ m_cryptoContext = None /\ m_scheme = "SCHEME_CKKS"
       \/ \E cc \in Contexts : m_cryptoContext = cc /\ m_scheme = SchemeOf(cc)
    /\ m_cachedFHETrace = None
    /\ m_cachedContext = None
    /\ m_cachedTestVector = None
    /\ derived = [a \in {"trace", "context", "testvector"} |-> 0]
    /\ calls = 0
    /\ files = {}
    /\ got = NoGot
    /\ NoWip /\ ThreadInit

\* what a registration leaves behind in the tracer and in scope s
HeraCommit(s, st) ==
    /\ scopes' = [scopes EXCEPT ![s].m_currentInstruction = st.ins,
                                ![s].m_inputObjectIds = st.inputIds,
                                ![s].m_hasOutput = st.hasOutput]
    /\ m_uniqueID' = st.uid
    /\ m_counters' = st.ctr
    /\ m_dataObjectPool' = st.pool
    /\ resolved' = resolved \cup st.seen

\* HeraclesTracer::StartFunctionTrace(func [, ciphertexts]): the constructor of
\* the scope, then registerInputs(ciphertexts)
HeraStartFunctionTrace(func, cts) ==
    /\ backend = "protobuf"
    /\ opened + regs < MaxOps /\ opened + regs + calls < HeraBudget
    /\ LET sid == opened + 1
           st0 == [uid |-> m_uniqueID, ctr |-> m_counters, pool |-> m_dataObjectPool,
                   ins |-> [op |-> ToLower(func), plaintext_index |-> 0, srcs |-> <<>>,
                            dests |-> <<>>, params |-> <<>>],
                   inputIds |-> <<>>, hasOutput |-> FALSE, seen |-> {}]
           st == HeraRegisterInputs(st0, cts)
       IN  /\ scopes' = (sid :> [m_func |-> func, m_currentInstruction |-> st.ins,
                                 m_inputObjectIds |-> st.inputIds,
                                 m_hasOutput |-> st.hasOutput]) @@ scopes
           /\ m_uniqueID' = st.uid
           /\ m_counters' = st.ctr
           /\ m_dataObjectPool' = st.pool
           /\ resolved' = resolved \cup st.seen
    /\ opened' = opened + 1
    /\ ret' = NoRet /\ got' = NoGot
    /\ UNCHANGED <<regs, m_instructions, cacheVars, protoFrame>>

\* registerInput(Ciphertext | ConstCiphertext | Plaintext | ConstPlaintext)
HeraRegisterInput(s, obj) ==
    /\ backend = "protobuf"
    /\ s \in OpenScopes
    /\ opened + regs < MaxOps /\ opened + regs + calls < HeraBudget
    /\ HeraCommit(s, IF obj.kind = "pt" THEN addPlaintextInput(HeraState(s), obj)
                                         ELSE addCiphertextInput(HeraState(s), obj))
    /\ regs' = regs + 1
    /\ ret' = NoRet /\ got' = NoGot
    /\ UNCHANGED <<opened, m_instructions, cacheVars, protoFrame>>

\* registerInput(int64_t value, name): addParameter(name, value, "int64")
HeraRegisterInputValue(s, v, name) ==
    /\ backend = "protobuf"
    /\ s \in OpenScopes
    /\ opened + regs < MaxOps /\ opened + regs + calls < HeraBudget
    /\ scopes' = [scopes EXCEPT ![s].m_currentInstruction.params =
                     (name :> [value |-> v, type |-> "INT64"]) @@ @]
    /\ regs' = regs + 1
    /\ ret' = NoRet /\ got' = NoGot
    /\ UNCHANGED <<regVars, opened, m_instructions, m_dataObjectPool, cacheVars, protoFrame>>

HeraRegisterOutput(s, obj) ==
    /\ backend = "protobuf"
    /\ s \in OpenScopes
    /\ opened + regs < MaxOps /\ opened + regs + calls < HeraBudget
    /\ LET r == HeraRegisterOutputHandle(HeraState(s), obj)
       IN  /\ HeraCommit(s, r.st)
           /\ ret' = [kind |-> "handle", arg |-> obj, val |-> r.ret]
    /\ regs' = regs + 1
    /\ got' = NoGot
    /\ UNCHANGED <<opened, m_instructions, cacheVars, protoFrame>>

\* registerOutput(std::vector<Ciphertext>): registerOutput(ct, name) for each; returns the vector
HeraRegisterOutputVector(s, vec) ==
    /\ backend = "protobuf"
    /\ s \in OpenScopes
    /\ opened + regs < MaxOps /\ opened + regs + calls < HeraBudget
    /\ HeraCommit(s, HeraRegisterOutputLoop(HeraState(s), vec))
    /\ ret' = [kind |-> "vector", arg |-> vec, val |-> vec]
    /\ regs' = regs + 1
    /\ got' = NoGot
    /\ UNCHANGED <<opened, m_instructions, cacheVars, protoFrame>>

\* registerOutput(const std::string&) (and the key overloads): m_hasOutput = true; return value
HeraRegisterOutputString(s, str) ==
    /\ backend = "protobuf"
    /\ s \in OpenScopes
    /\ opened + regs < MaxOps /\ opened + regs + calls < HeraBudget
    /\ scopes' = [scopes EXCEPT ![s].m_hasOutput = TRUE]
    /\ ret' = [kind |-> "string", arg |-> str, val |-> str]
    /\ regs' = regs + 1
    /\ got' = NoGot
    /\ UNCHANGED <<regVars, opened, m_instructions, m_dataObjectPool, cacheVars, protoFrame>>

\* a destructor that emits whenever an output was registered, inputs or not
HeraAddInstruction_anyInputs(instructions, sc) ==
    IF sc.m_hasOutput
    THEN Append(instructions, sc.m_currentInstruction)
    ELSE instructions

\* ~HeraClesFunctionTracer: if (m_hasOutput && !m_inputObjectIds.empty())
\* m_tracer->addInstruction(m_currentInstruction)
HeraAddInstruction(instructions, sc) ==
    IF sc.m_hasOutput /\ sc.m_inputObjectIds # <<>>
    THEN Append(instructions, sc.m_currentInstruction)
    ELSE instructions

\* a scope close whose addInstruction also drops the three caches
HeraCloseScope_invalidate(s) ==
    /\ backend = "protobuf"
    /\ s \in OpenScopes
    /\ m_instructions' = HeraAddInstruction(m_instructions, scopes[s])
    /\ scopes' = RemoveKey(scopes, s)
    /\ m_cachedFHETrace' = None /\ m_cachedContext' = None /\ m_cachedTestVector' = None
    /\ derived' = [a \in DOMAIN derived |-> 0]
    /\ ret' = NoRet /\ got' = NoGot
    /\ UNCHANGED <<regVars, opened, regs, m_dataObjectPool, m_cryptoContext, m_scheme,
                   calls, files, protoFrame>>

HeraCloseScope(s) ==
    /\ backend = "protobuf"
    /\ s \in OpenScopes
    /\ m_instructions' = HeraAddInstruction(m_instructions, scopes[s])
    /\ scopes' = RemoveKey(scopes, s)
    /\ ret' = NoRet /\ got' = NoGot
    /\ UNCHANGED <<regVars, opened, regs, m_dataObjectPool, cacheVars, protoFrame>>

(***************************************************************************)
(* HeraclesTracer: context, caches, getters, savers, reset                 *)
(***************************************************************************)
\* extractFHEContext(cc)
extractFHEContext(cc) == [kind |-> "FHEContext", scheme |-> SchemeOf(cc)]

\* the symbols the instructions of a trace name as destination or source
UsedSymbols(trace) ==
    UNION {{o.symbol_name : o \in SeqRange(trace.instructions[i].dests)} \cup
           {o.symbol_name : o \in SeqRange(trace.instructions[i].srcs)} :
              i \in 1..Len(trace.instructions)}

\* convertDCRTPolyToProtobuf
convertDCRTPolyToProtobuf(dcrtpolys) == [i \in 1..Len(dcrtpolys) |-> <<"pb", dcrtpolys[i]>>]

\* a generateTestVector that converts the whole pool
generateTestVector_wholePool(trace, pool) ==
    [kind |-> "TestVector",
     sym_data_map |-> [sym \in DOMAIN pool |-> convertDCRTPolyToProtobuf(pool[sym])]]

\* generateTestVector(trace): for each used symbol found in the pool, its converted data
generateTestVector(trace, pool) ==
    [kind |-> "TestVector",
     sym_data_map |-> [sym \in UsedSymbols(trace) \cap DOMAIN pool |->
                          convertDCRTPolyToProtobuf(pool[sym])]]

\* the caches, with the count of derivations: c = [trace, context, testvector, derived]
Caches ==
    [trace |-> m_cachedFHETrace, context |-> m_cachedContext,
     testvector |-> m_cachedTestVector, derived |-> derived]

\* a generateTracesIfNeeded without the "already generated" return
generateTracesIfNeeded_always(c, instructions, scheme, cc, pool) ==
    LET trace == [kind |-> "Trace", scheme |-> scheme, instructions |-> instructions]
    IN  IF cc # None
        THEN [trace |-> trace, context |-> extractFHEContext(cc),
              testvector |-> generateTestVector(trace, pool),
              derived |-> [a \in DOMAIN c.derived |-> c.derived[a] + 1]]
        ELSE [c EXCEPT !.trace = trace, !.derived["trace"] = @ + 1]

\* generateTracesIfNeeded
generateTracesIfNeeded(c, instructions, scheme, cc, pool) ==
    IF c.trace # None
    THEN c
    ELSE LET trace == [kind |-> "Trace", scheme |-> scheme, instructions |-> instructions]
         IN  IF cc # None
             THEN [trace |-> trace, context |-> extractFHEContext(cc),
                   testvector |-> generateTestVector(trace, pool),
                   derived |-> [a \in DOMAIN c.derived |-> c.derived[a] + 1]]
             ELSE [c EXCEPT !.trace = trace, !.derived["trace"] = @ + 1]

Generated ==
    generateTracesIfNeeded(Caches, m_instructions, m_scheme, m_cryptoContext, m_dataObjectPool)

SetCaches(c) ==
    /\ m_cachedFHETrace' = c.trace
    /\ m_cachedContext' = c.context
    /\ m_cachedTestVector' = c.testvector
    /\ derived' = c.derived

Thrown == [kind |-> "runtime_error"]

\* a setContext that stores the context and keeps the caches
SetContext_keep(cc) ==
    /\ backend = "protobuf"
    /\ calls < MaxCalls /\ opened + regs + calls < HeraBudget
    /\ m_cryptoContext' = cc
    /\ m_scheme' = SchemeOf(cc)
    /\ calls' = calls + 1
    /\ got' = NoGot /\ ret' = NoRet
    /\ UNCHANGED <<regVars, scopes, opened, regs, m_instructions, m_dataObjectPool, files,
                   m_cachedFHETrace, m_cachedContext, m_cachedTestVector, derived,
                   protoFrame>>

\* setContext(cc): stores the context and its scheme, clears the three caches
SetContext(cc) ==
    /\ backend = "protobuf"
    /\ calls < MaxCalls /\ opened + regs + calls < HeraBudget
    /\ m_cryptoContext' = cc
    /\ m_scheme' = SchemeOf(cc)
    /\ SetCaches([trace |-> None, context |-> None, testvector |-> None,
                  derived |-> [a \in DOMAIN derived |-> 0]])
    /\ calls' = calls + 1
    /\ got' = NoGot /\ ret' = NoRet
    /\ UNCHANGED <<regVars, scopes, opened, regs, m_instructions, m_dataObjectPool, files,
                   protoFrame>>

\* getTrace(): generateTracesIfNeeded(); return *m_cachedFHETrace
GetTrace ==
    /\ backend = "protobuf"
    /\ calls < MaxCalls /\ opened + regs + calls < HeraBudget
    /\ SetCaches(Generated)
    /\ got' = [call |-> "getTrace", val |-> Generated.trace]
    /\ calls' = calls + 1
    /\ ret' = NoRet
    /\ UNCHANGED <<regVars, scopes, opened, regs, m_instructions, m_dataObjectPool,
                   m_cryptoContext, m_scheme, files, protoFrame>>

\* getFHEContext(): throws without a context, else generates and returns *m_cachedContext
GetFHEContext ==
    /\ backend = "protobuf"
    /\ calls < MaxCalls /\ opened + regs + calls < HeraBudget
    /\ IF m_cryptoContext = None
       THEN /\ got' = [call |-> "getFHEContext", val |-> Thrown]
            /\ UNCHANGED <<m_cachedFHETrace, m_cachedContext, m_cachedTestVector, derived>>
       ELSE /\ SetCaches(Generated)
            /\ got' = [call |-> "getFHEContext", val |-> Generated.context]
    /\ calls' = calls + 1
    /\ ret' = NoRet
    /\ UNCHANGED <<regVars, scopes, opened, regs, m_instructions, m_dataObjectPool,
                   m_cryptoContext, m_scheme, files, protoFrame>>

\* getTestVector(): throws without a context, else generates and returns *m_cachedTestVector
GetTestVector ==
    /\ backend = "protobuf"
    /\ calls < MaxCalls /\ opened + regs + calls < HeraBudget
    /\ IF m_cryptoContext = None
       THEN /\ got' = [call |-> "getTestVector", val |-> Thrown]
            /\ UNCHANGED <<m_cachedFHETrace, m_cachedContext, m_cachedTestVector, derived>>
       ELSE /\ SetCaches(Generated)
            /\ got' = [call |-> "getTestVector", val |-> Generated.testvector]
    /\ calls' = calls + 1
    /\ ret' = NoRet
    /\ UNCHANGED <<regVars, scopes, opened, regs, m_instructions, m_dataObjectPool,
                   m_cryptoContext, m_scheme, files, protoFrame>>

\* saveTrace(): store_trace(m_filename + ".bin", getTrace())
SaveTrace ==
    /\ backend = "protobuf"
    /\ calls < MaxCalls /\ opened + regs + calls < HeraBudget
    /\ SetCaches(Generated)
    /\ files' = files \cup {".bin"}
    /\ got' = [call |-> "saveTrace", val |-> Generated.trace]
    /\ calls' = calls + 1
    /\ ret' = NoRet
    /\ UNCHANGED <<regVars, scopes, opened, regs, m_instructions, m_dataObjectPool,
                   m_cryptoContext, m_scheme, protoFrame>>

\* saveTraceJson(): store_json_trace(m_filename + ".json", getTrace())
SaveTraceJson ==
    /\ backend = "protobuf"
    /\ calls < MaxCalls /\ opened + regs + calls < HeraBudget
    /\ SetCaches(Generated)
    /\ files' = files \cup {".json"}
    /\ got' = [call |-> "saveTraceJson", val |-> Generated.trace]
    /\ calls' = calls + 1
    /\ ret' = NoRet
    /\ UNCHANGED <<regVars, scopes, opened, regs, m_instructions, m_dataObjectPool,
                   m_cryptoContext, m_scheme, protoFrame>>

\* saveDataTrace(): nothing without a context; else the context and the test
\* vector, as one binary file and as two JSON files
SaveDataTrace ==
    /\ backend = "protobuf"
    /\ calls < MaxCalls /\ opened + regs + calls < HeraBudget
    /\ IF m_cryptoContext = None
       THEN /\ got' = NoGot
            /\ UNCHANGED <<m_cachedFHETrace, m_cachedContext, m_cachedTestVector, derived, files>>
       ELSE /\ SetCaches(Generated)
            /\ files' = files \cup {"_data.bin", "_data_context.json", "_data_testvector.json"}
            /\ got' = [call |-> "saveDataTrace",
                       val |-> [kind |-> "DataTrace", context |-> Generated.context,
                                testvector |-> Generated.testvector]]
    /\ calls' = calls + 1
    /\ ret' = NoRet
    /\ UNCHANGED <<regVars, scopes, opened, regs, m_instructions, m_dataObjectPool,
                   m_cryptoContext, m_scheme, protoFrame>>

\* reset(): clears the instructions, the pool and the three caches
\* a reset that also forgets the symbolic names and restarts the ordinals
Reset_forgetNames ==
    /\ backend = "protobuf"
    /\ calls < MaxCalls /\ opened + regs + calls < HeraBudget
    /\ m_instructions' = <<>>
    /\ m_dataObjectPool' = <<>>
    /\ m_uniqueID' = <<>>
    /\ m_counters' = [t \in TypeTags |-> 0]
    /\ SetCaches([trace |-> None, context |-> None, testvector |-> None,
                  derived |-> [a \in DOMAIN derived |-> 0]])
    /\ calls' = calls + 1
    /\ got' = [call |-> "reset", val |-> None] /\ ret' = NoRet
    /\ UNCHANGED <<resolved, scopes, opened, regs, m_cryptoContext, m_scheme, files, protoFrame>>

\* a reset that clears the instructions and the pool and keeps the caches
Reset_keepCaches ==
    /\ backend = "protobuf"
    /\ calls < MaxCalls /\ opened + regs + calls < HeraBudget
    /\ m_instructions' = <<>>
    /\ m_dataObjectPool' = <<>>
    /\ calls' = calls + 1
    /\ got' = [call |-> "reset", val |-> None] /\ ret' = NoRet
    /\ UNCHANGED <<regVars, scopes, opened, regs, m_cryptoContext, m_scheme, files,
                   m_cachedFHETrace, m_cachedContext, m_cachedTestVector, derived,
                   protoFrame>>

\* reset()
Reset ==
    /\ backend = "protobuf"
    /\ calls < MaxCalls /\ opened + regs + calls < HeraBudget
    /\ m_instructions' = <<>>
    /\ m_dataObjectPool' = <<>>
    /\ SetCaches([trace |-> None, context |-> None, testvector |-> None,
                  derived |-> [a \in DOMAIN derived |-> 0]])
    /\ calls' = calls + 1
    /\ got' = [call |-> "reset", val |-> None] /\ ret' = NoRet
    /\ UNCHANGED <<regVars, scopes, opened, regs, m_cryptoContext, m_scheme, files, protoFrame>>

HeraNext ==
    \/ \E f \in FuncNames, cts \in CtLists : HeraStartFunctionTrace(f, cts)
    \/ \E s \in OpenScopes, o \in HostObjects : HeraRegisterInput(s, o)
    \/ \E s \in OpenScopes, v \in Values, n \in Names : HeraRegisterInputValue(s, v, n)
    \/ \E s \in OpenScopes, o \in HostObjects : HeraRegisterOutput(s, o)
    \/ \E s \in OpenScopes, vec \in CtLists : HeraRegisterOutputVector(s, vec)
    \/ \E s \in OpenScopes, str \in Strings : HeraRegisterOutputString(s, str)
    \/ \E s \in OpenScopes : HeraCloseScope(s)
    \/ \E cc \in Contexts : SetContext(cc)
    \/ GetTrace
    \/ GetFHEContext
    \/ GetTestVector
    \/ SaveTrace
    \/ SaveTraceJson
    \/ SaveDataTrace
    \/ Reset

SpecHera == HeraInit /\ [][HeraNext]_vars

(***************************************************************************)
(* Properties of the complete protobuf backend                             *)
(***************************************************************************)
\* the step derives the test vector: the cache was empty or held another one
Materializes == m_cachedTestVector' # None /\ m_cachedTestVector' # m_cachedTestVector

TestVectorStep ==
    Materializes =>
       /\ DOMAIN m_cachedTestVector'.sym_data_map =
             UsedSymbols(m_cachedFHETrace') \cap DOMAIN m_dataObjectPool
       /\ \A sym \in DOMAIN m_cachedTestVector'.sym_data_map :
             m_cachedTestVector'.sym_data_map[sym] =
                convertDCRTPolyToProtobuf(m_dataObjectPool[sym])
       /\ m_cachedFHETrace'.instructions = m_instructions

\* C7: test-vector minimality.  The step that materializes the test vector
\* gives it data for exactly the symbols that are a source or destination of
\* an instruction of the materialized trace and are in the data pool at that
\* moment, each with the converted data of the pool; a symbol that is only
\* in the pool is left out.
TestVectorMinimality == [][TestVectorStep]_vars

\* the materialized test vector holds a symbol of the trace, and the pool
\* holds another symbol, stored by a scope that left no instruction
TestVectorMinimalityWitness ==
    /\ m_cachedTestVector # None
    /\ DOMAIN m_cachedTestVector.sym_data_map # {}
    /\ DOMAIN m_dataObjectPool \ DOMAIN m_cachedTestVector.sym_data_map # {}
    /\ m_cachedFHETrace.instructions # <<>>
    /\ m_cachedFHETrace.instructions = m_instructions

DerivedAtMostOnce ==
    /\ \A a \in DOMAIN derived : derived[a] <= 1
    /\ derived["trace"] = 1 <=> m_cachedFHETrace # None
    /\ derived["context"] = 1 <=> m_cachedContext # None
    /\ derived["testvector"] = 1 <=> m_cachedTestVector # None

\* a step that is neither reset() nor setContext(): both leave the trace cache empty
Materialized == m_cachedFHETrace # None /\ m_cachedFHETrace' # None

CacheStep ==
    /\ Materialized =>
          /\ m_cachedFHETrace' = m_cachedFHETrace
          /\ m_cachedContext' = m_cachedContext
          /\ m_cachedTestVector' = m_cachedTestVector
          /\ derived' = derived
    /\ got'.call \in {"getTrace", "saveTrace", "saveTraceJson"} => got'.val = m_cachedFHETrace'
    /\ got'.call = "getFHEContext" /\ got'.val # Thrown => got'.val = m_cachedContext'
    /\ got'.call = "getTestVector" /\ got'.val # Thrown => got'.val = m_cachedTestVector'
    /\ got'.call = "saveDataTrace" =>
          /\ got'.val.context = m_cachedContext'
          /\ got'.val.testvector = m_cachedTestVector'

\* C9: materialize once.  Between two calls of reset() / setContext() each of
\* the three artifacts is derived at most once; once the trace is cached, no
\* call other than reset() and setContext() changes any cache, whatever was
\* recorded in between; and every getter and saver returns or stores the
\* cached artifact.
MaterializeOnce == []DerivedAtMostOnce /\ [][CacheStep]_vars

\* a trace with an instruction was derived by an earlier call, and a second
\* call has just returned the cached trace
MaterializeOnceWitness ==
    /\ calls = 2
    /\ derived["trace"] = 1
    /\ got.call = "getTrace" /\ got.val = m_cachedFHETrace
    /\ m_cachedFHETrace.instructions # <<>>

\* a step of a scope (start, registration, close): no call of the tracer's own
ScopeStep == calls' = calls

FrozenStep ==
    m_cachedFHETrace # None =>
       /\ ScopeStep =>
             /\ m_cachedFHETrace' = m_cachedFHETrace
             /\ m_cachedContext' = m_cachedContext
             /\ m_cachedTestVector' = m_cachedTestVector
       /\ ~ScopeStep /\ got'.call \in {"getTrace", "saveTrace", "saveTraceJson"} =>
             got'.val = m_cachedFHETrace
       /\ ~ScopeStep /\ got'.call = "getTestVector" /\ got'.val # Thrown =>
             got'.val = m_cachedTestVector
       /\ ~ScopeStep /\ got'.call = "saveDataTrace" =>
             got'.val.testvector = m_cachedTestVector
       /\ m_cachedFHETrace' = None =>
             /\ ~ScopeStep /\ got'.val = None
             /\ m_instructions' = <<>> \/ m_instructions' = m_instructions

\* C25: the cached trace is frozen until invalidated.  While the trace is
\* cached, no scope step (an instruction appended by a closing scope, data
\* stored by a registration) changes a cache; getTrace, getTestVector and the
\* save methods give the artifacts as they were cached, without what was
\* recorded since; and only reset() or setContext() empties the cache.
FrozenUntilInvalidated == [][FrozenStep]_vars

\* a getter has just returned the cached trace, which lacks an instruction
\* that a scope closing after the materialization appended
FrozenUntilInvalidatedWitness ==
    /\ got.call \in {"getTrace", "getTestVector"}
    /\ got.val # Thrown
    /\ m_cachedFHETrace # None
    /\ derived["trace"] = 1 /\ calls = 2
    /\ Len(m_instructions) > Len(m_cachedFHETrace.instructions)

\* C26: cache consistency.  In every reachable state of one thread's calls,
\* a cached trace together with a set crypto context implies a cached context
\* and a cached test vector; so getFHEContext() and getTestVector() have
\* either thrown "CryptoContext not set" (no context is set) or returned a
\* materialized artifact.
CacheConsistency ==
    /\ m_cachedFHETrace # None /\ m_cryptoContext # None =>
          m_cachedContext # None /\ m_cachedTestVector # None
    /\ got.call = "getFHEContext" =>
          IF m_cryptoContext = None THEN got.val = Thrown
          ELSE got.val.kind = "FHEContext" /\ got.val = m_cachedContext
    /\ got.call = "getTestVector" =>
          IF m_cryptoContext = None THEN got.val = Thrown
          ELSE got.val.kind = "TestVector" /\ got.val = m_cachedTestVector

\* with a context set, a second call finds the trace already cached and
\* getFHEContext() or getTestVector() returns the artifact cached with it
CacheConsistencyWitness ==
    /\ calls = 2
    /\ m_cryptoContext # None
    /\ derived["trace"] = 1
    /\ got.call \in {"getFHEContext", "getTestVector"}
    /\ got.val \in {m_cachedContext, m_cachedTestVector}
    /\ m_cachedFHETrace.instructions # <<>>

\* reset() empties the recordings and the caches and leaves the rest
ResetStep ==
    got'.call = "reset" /\ ~ScopeStep =>
       /\ m_instructions' = <<>> /\ m_dataObjectPool' = <<>>
       /\ m_cachedFHETrace' = None /\ m_cachedContext' = None /\ m_cachedTestVector' = None
       /\ UNCHANGED <<m_scheme, m_cryptoContext, m_uniqueID, m_counters, files>>

\* while no scope has closed since reset(), nothing is handed out
NothingRecorded ==
    m_instructions = <<>> =>
       /\ m_cachedFHETrace # None => m_cachedFHETrace.instructions = <<>>
       /\ m_cachedTestVector # None => DOMAIN m_cachedTestVector.sym_data_map = {}
       /\ got.call \in {"getTrace", "saveTrace", "saveTraceJson"} =>
             got.val.instructions = <<>>
       /\ got.call = "getTestVector" /\ got.val # Thrown =>
             DOMAIN got.val.sym_data_map = {}

\* C27: effect of reset().  reset() empties the instructions, the data pool
\* and the three caches and leaves the scheme, the crypto context, the
\* hash-to-name map, the counters and the written files as they were; from
\* then until a scope closes, getTrace() gives a trace with no instruction
\* and the test vector has no symbol.
ResetEffect == []NothingRecorded /\ [][ResetStep]_vars

\* after registrations that named objects and stored their data, reset() has
\* emptied the pool, and a getter has then returned an empty artifact while
\* the names and the counters are still there
ResetEffectWitness ==
    /\ got.call \in {"getTrace", "getTestVector"}
    /\ got.val # Thrown
    /\ m_instructions = <<>> /\ m_dataObjectPool = <<>>
    /\ DOMAIN m_uniqueID # {}
    /\ \E t \in DOMAIN m_counters : m_counters[t] > 0
    /\ calls = 2

\* an entry that registers a value, or an object whose name was in the
\* hash-to-name map before the step
MintsNothing(entry) ==
    \/ "value" \in DOMAIN entry
    \/ /\ "id" \in DOMAIN entry
       /\ \E h \in DOMAIN m_uniqueID : m_uniqueID[h] = entry.id

\* the step appended one entry to the list of the open scope s
AppendedTo(s, list) ==
    /\ s \in DOMAIN scopes /\ s \in DOMAIN scopes'
    /\ Len(scopes'[s][list]) = Len(scopes[s][list]) + 1

NoMintStep ==
    \A s \in DOMAIN scopes : \A list \in {"m_inputs", "m_outputs"} :
       (AppendedTo(s, list) /\ MintsNothing(scopes'[s][list][Len(scopes'[s][list])])) =>
          /\ m_uniqueID' = m_uniqueID
          /\ m_counters' = m_counters
          /\ scopes' = [scopes EXCEPT ![s][list] =
                           Append(@, scopes'[s][list][Len(scopes'[s][list])])]
          /\ UNCHANGED <<m_level, stream>>

\* C29: registrations that mint nothing leave the registry unchanged.  In the
\* hash-based text tracer a registration of a value, or of an object whose
\* content hash already has a name, changes neither the hash-to-name map nor
\* a counter; it appends one entry to the input or output list of its scope
\* and changes no other list, no level and no written line.
NoMintNoChange == [][NoMintStep]_vars

\* a scope holds a value entry and an output entry that reuses the name of
\* one of its inputs: the object was registered twice and named once
NoMintNoChangeWitness ==
    \E s \in DOMAIN scopes :
       /\ \E i \in DOMAIN scopes[s].m_inputs : "value" \in DOMAIN scopes[s].m_inputs[i]
       /\ \E i \in DOMAIN scopes[s].m_inputs, j \in DOMAIN scopes[s].m_outputs :
             /\ "id" \in DOMAIN scopes[s].m_inputs[i]
             /\ "id" \in DOMAIN scopes[s].m_outputs[j]
             /\ scopes[s].m_inputs[i].id = scopes[s].m_outputs[j].id
       /\ Cardinality(DOMAIN m_uniqueID) = 1

\* operands and their types are registered in pairs, and a written line has
\* at most one destination, with its type
OperandsPaired ==
    /\ \A s \in DOMAIN scopes :
          /\ Len(scopes[s].m_inputs) = Len(scopes[s].m_inputTypes)
          /\ Len(scopes[s].m_outputs) = Len(scopes[s].m_outputTypes)
    /\ \A k \in DOMAIN stream :
          /\ Len(stream[k].inputs) = Len(stream[k].inputTypes)
          /\ Len(stream[k].result) = Len(stream[k].resultType)
          /\ Len(stream[k].result) <= 1

\* the line a closing scope writes, against the lists the scope held
FirstOutputStep ==
    Len(stream') = Len(stream) + 1 =>
       LET line == stream'[Len(stream')]
           sc   == scopes[line.sid]
       IN  /\ line.result = IF sc.m_outputs = <<>> THEN <<>> ELSE <<Head(sc.m_outputs)>>
           /\ line.resultType =
                 IF sc.m_outputs = <<>> THEN <<>> ELSE <<Head(sc.m_outputTypes)>>
           /\ line.inputs = sc.m_inputs
           /\ line.inputTypes = sc.m_inputTypes

\* C30: the IR line keeps only the first output.  The line a closing scope
\* writes has the first registered output as its destination and that
\* output's type as its result type; later outputs are not rendered; a scope
\* without an output writes neither; and the line has as many source operands
\* as input types.
FirstOutputOnly == []OperandsPaired /\ [][FirstOutputStep]_vars

\* the only scope of the run has closed; its line has a destination, and the
\* tracer has named another object that the line shows neither as the
\* destination nor as a source: an output registered after the first
FirstOutputOnlyWitness ==
    /\ opened = 1 /\ scopes = <<>> /\ Len(stream) = 1
    /\ stream[1].result # <<>>
    /\ \E p \in DOMAIN m_idMap :
          /\ stream[1].result[1] # <<"%", m_idMap[p]>>
          /\ \A i \in DOMAIN stream[1].inputs :
                stream[1].inputs[i][1] = "%" => stream[1].inputs[i] # <<"%", m_idMap[p]>>

(***************************************************************************)
(* The protobuf backend, in-progress revision (heraclestracer.h):          *)
(* HeraclesFunctionTracer collects operands in the scope; HeraclesTracer   *)
(* holds the three documents and writes them on request                    *)
(***************************************************************************)
\* _initializeContext(): the context description of m_context
WipInitializeContext(cc) == [kind |-> "FHEContext", scheme |-> SchemeOf(cc)]

\* _initializeTrace(): an empty trace with the parameters of the context
\* description, which it creates when there is none.  d = [trace, context]
WipInitializeTrace(d, cc) ==
    LET context == IF d.context = None THEN WipInitializeContext(cc) ELSE d.context
    IN  [trace |-> [kind |-> "Trace", scheme |-> context.scheme, instructions |-> <<>>],
         context |-> context]

\* _initializeTestVector(): an empty data map
WipInitializeTestVector == [kind |-> "TestVector", sym_data_map |-> <<>>]

\* HeraclesTracer::addInstruction(instruction): under the mutex, creates the
\* trace when there is none and appends the instruction
WipAddInstruction(d, cc, instruction) ==
    LET i == IF d.trace = None THEN WipInitializeTrace(d, cc) ELSE d
    IN  [i EXCEPT !.trace.instructions = Append(@, instruction)]

\* HeraclesTracer::storeData(objectId, data): under the mutex, creates the
\* test vector when there is none and sets the entry of objectId
WipStoreData(tv, objectId, data) ==
    LET t == IF tv = None THEN WipInitializeTestVector ELSE tv
    IN  [t EXCEPT !.sym_data_map = (objectId :> data) @@ @]

\* storeDataIfNeeded(ciphertext, objectId), the helper of the complete
\* revision: the data of a ciphertext that has elements
WipStoreDataIfNeeded(tv, obj, objectId) ==
    IF obj.kind = "ct" /\ obj.elems > 0
    THEN WipStoreData(tv, objectId, convertDCRTPolyToProtobuf(GetElements(obj)))
    ELSE tv

\* the part of the tracer and of the scope a registerOutput works on
WipState(s) ==
    [uid |-> m_uniqueID, ctr |-> m_counters, tv |-> m_TestVector,
     ins |-> scopes[s].m_currentInstruction, hasOutput |-> scopes[s].m_hasOutput, seen |-> {}]

\* registerOutput(Ciphertext | ConstCiphertext | Plaintext): a destination
\* operand in m_currentInstruction, the data of a ciphertext; returns the argument
WipRegisterOutputHandle(st, obj) ==
    [st |-> IF obj.kind = "ct" /\ obj.elems > 0
            THEN LET g == getObjectId([uid |-> st.uid, ctr |-> st.ctr], obj, "ciphertext")
                 IN  [st EXCEPT !.uid = g.uid, !.ctr = g.ctr,
                                !.ins.dests = Append(@, OperandObject(g.id, GetNumOfElements(GetElements(obj)[1]), obj.elems)),
                                !.tv = WipStoreDataIfNeeded(@, obj, g.id),
                                !.hasOutput = TRUE,
                                !.seen = @ \cup {<<g.hash, g.id>>}]
            ELSE IF obj.kind = "pt"
            THEN LET g == getObjectId([uid |-> st.uid, ctr |-> st.ctr], obj, "plaintext")
                 IN  [st EXCEPT !.uid = g.uid, !.ctr = g.ctr,
                                !.ins.dests = Append(@, OperandObject(g.id, 0, 1)),
                                !.hasOutput = TRUE,
                                !.seen = @ \cup {<<g.hash, g.id>>}]
            ELSE st,
     ret |-> obj]

RECURSIVE WipRegisterOutputLoop(_, _)
WipRegisterOutputLoop(st, cts) ==
    IF cts = <<>> THEN st
    ELSE WipRegisterOutputLoop(WipRegisterOutputHandle(st, Head(cts)).st, Tail(cts))

WipCommit(s, st) ==
    /\ scopes' = [scopes EXCEPT ![s].m_currentInstruction = st.ins, ![s].m_hasOutput = st.hasOutput]
    /\ m_uniqueID' = st.uid
    /\ m_counters' = st.ctr
    /\ m_TestVector' = st.tv
    /\ resolved' = resolved \cup st.seen

wipFrame == <<backend, m_level, stream, lifo, m_idMap, m_instructions, m_dataObjectPool,
              m_cryptoContext, m_scheme, m_cachedFHETrace, m_cachedContext, m_cachedTestVector,
              derived, thrVars>>

\* HeraclesTracer(filename, cc)
WipInit ==
    /\ backend = "protobuf-wip"
    /\ RegistryInit /\ ScopeInit
    /\ m_idMap = <<>>
    /\ ProtoInit /\ ThreadInit
    /\ m_FHETrace = None
    /\ m_FHEContext = None
    /\ m_TestVector = None
    /\ m_context \in Contexts

\* HeraclesTracer::StartFunctionTrace(func [, ciphertexts]): the constructor of
\* the scope, then registerInputs(ciphertexts), which hands each ciphertext's
\* elements to registerInput(std::vector<Element>, name), whose body is empty.
\* given: history of the ciphertexts the host registered as inputs
WipStartFunctionTrace(func, cts) ==
    /\ backend = "protobuf-wip"
    /\ opened + regs < MaxOps /\ opened + regs + calls < HeraBudget
    /\ scopes' = ((opened + 1) :>
                    [m_currentInstruction |->
                        [evalop_name |-> func, op |-> ToLower(func),
                         has_plaintext_index |-> m_context.scheme # "CKKSRNS_SCHEME",
                         srcs |-> <<>>, dests |-> <<>>, params |-> <<>>],
                     m_sources |-> <<>>, m_destinations |-> <<>>, m_parameters |-> <<>>,
                     m_hasOutput |-> FALSE, given |-> cts]) @@ scopes
    /\ opened' = opened + 1
    /\ ret' = NoRet
    /\ got' = NoGot
    /\ UNCHANGED <<regVars, regs, calls, files, wipVars, wipFrame>>

\* registerInput(Ciphertext | ConstCiphertext, name, isMutable) on a ciphertext
\* that is not null: registerInput(ciphertext->GetElements(), name), whose body is empty
WipRegisterInput(s, obj) ==
    /\ backend = "protobuf-wip"
    /\ s \in OpenScopes
    /\ opened + regs < MaxOps /\ opened + regs + calls < HeraBudget
    /\ scopes' = [scopes EXCEPT ![s].given = Append(@, obj)]
    /\ regs' = regs + 1
    /\ ret' = NoRet
    /\ got' = NoGot
    /\ UNCHANGED <<regVars, opened, calls, files, wipVars, wipFrame>>

\* registerInput(int64_t value, name, isMutable): addParameter(name, value, "int64")
WipRegisterInputValue(s, v, name) ==
    /\ backend = "protobuf-wip"
    /\ s \in OpenScopes
    /\ opened + regs < MaxOps /\ opened + regs + calls < HeraBudget
    /\ scopes' = [scopes EXCEPT ![s].m_currentInstruction.params =
                     (name :> [value |-> v, type |-> "INT64"]) @@ @]
    /\ regs' = regs + 1
    /\ ret' = NoRet
    /\ got' = NoGot
    /\ UNCHANGED <<regVars, opened, calls, files, wipVars, wipFrame>>

WipRegisterOutput(s, obj) ==
    /\ backend = "protobuf-wip"
    /\ s \in OpenScopes
    /\ opened + regs < MaxOps /\ opened + regs + calls < HeraBudget
    /\ LET r == WipRegisterOutputHandle(WipState(s), obj)
       IN  /\ WipCommit(s, r.st)
           /\ ret' = [kind |-> "handle", arg |-> obj, val |-> r.ret]
    /\ regs' = regs + 1
    /\ got' = NoGot
    /\ UNCHANGED <<opened, calls, files, m_FHETrace, m_FHEContext, m_context, wipFrame>>

\* registerOutput(std::vector<Ciphertext>): registerOutput(ct, name) for each; returns the vector
WipRegisterOutputVector(s, vec) ==
    /\ backend = "protobuf-wip"
    /\ s \in OpenScopes
    /\ opened + regs < MaxOps /\ opened + regs + calls < HeraBudget
    /\ WipCommit(s, WipRegisterOutputLoop(WipState(s), vec))
    /\ ret' = [kind |-> "vector", arg |-> vec, val |-> vec]
    /\ regs' = regs + 1
    /\ got' = NoGot
    /\ UNCHANGED <<opened, calls, files, m_FHETrace, m_FHEContext, m_context, wipFrame>>

\* registerOutput(const std::string&) (and the key overloads): m_hasOutput = true; return value
WipRegisterOutputString(s, str) ==
    /\ backend = "protobuf-wip"
    /\ s \in OpenScopes
    /\ opened + regs < MaxOps /\ opened + regs + calls < HeraBudget
    /\ scopes' = [scopes EXCEPT ![s].m_hasOutput = TRUE]
    /\ ret' = [kind |-> "string", arg |-> str, val |-> str]
    /\ regs' = regs + 1
    /\ got' = NoGot
    /\ UNCHANGED <<regVars, opened, calls, files, wipVars, wipFrame>>

\* ~HeraclesFunctionTracer: what the destructor leaves in m_currentInstruction,
\* one more destination group, one more source group and the parameters,
\* copied from the scope's (empty) lists
WipDestructor(sc) ==
    [sc.m_currentInstruction EXCEPT
        !.dests = Append(@, [destinations |-> sc.m_destinations]),
        !.srcs = Append(@, [sources |-> sc.m_sources]),
        !.params = @ @@ [i \in DOMAIN sc.m_parameters |-> sc.m_parameters[i]]]

\* the scope closes: the destructor completes m_currentInstruction, which is
\* then destroyed with the scope; the tracer is not called
WipCloseScope(s) ==
    /\ backend = "protobuf-wip"
    /\ s \in OpenScopes
    /\ WipDestructor(scopes[s]).evalop_name = scopes[s].m_currentInstruction.evalop_name
    /\ scopes' = RemoveKey(scopes, s)
    /\ ret' = NoRet
    /\ got' = NoGot
    /\ UNCHANGED <<regVars, opened, regs, calls, files, wipVars, wipFrame>>

\* the three documents after the savers' "create when there is none" steps
WipDocuments ==
    LET d == IF m_FHETrace = None
             THEN WipInitializeTrace([trace |-> m_FHETrace, context |-> m_FHEContext], m_context)
             ELSE [trace |-> m_FHETrace, context |-> m_FHEContext]
    IN  [trace |-> d.trace,
         context |-> IF d.context = None THEN WipInitializeContext(m_context) ELSE d.context,
         testvector |-> IF m_TestVector = None THEN WipInitializeTestVector ELSE m_TestVector]

\* saveBinaryTrace(): the trace, the context, the test vector and the data trace
WipSaveBinaryTrace ==
    /\ backend = "protobuf-wip"
    /\ calls < MaxCalls /\ opened + regs + calls < HeraBudget
    /\ m_FHETrace' = WipDocuments.trace
    /\ m_FHEContext' = WipDocuments.context
    /\ m_TestVector' = WipDocuments.testvector
    /\ files' = files \cup {".bin", "_context.bin", "_testvector.bin", "_data.bin"}
    /\ calls' = calls + 1
    /\ ret' = NoRet
    /\ got' = NoGot
    /\ UNCHANGED <<regVars, scopes, opened, regs, m_context, wipFrame>>

\* saveJsonTrace(): the trace, the context and the test vector
WipSaveJsonTrace ==
    /\ backend = "protobuf-wip"
    /\ calls < MaxCalls /\ opened + regs + calls < HeraBudget
    /\ m_FHETrace' = WipDocuments.trace
    /\ m_FHEContext' = WipDocuments.context
    /\ m_TestVector' = WipDocuments.testvector
    /\ files' = files \cup {".json", "_context.json", "_testvector.json"}
    /\ calls' = calls + 1
    /\ ret' = NoRet
    /\ got' = NoGot
    /\ UNCHANGED <<regVars, scopes, opened, regs, m_context, wipFrame>>

\* the raw addresses the host passes to registerInput(void*)
Pointers == {[kind |-> "ptr", ptr |-> NCt + 3]}

\* registerInput(void* ptr, name, isMutable): throws std::runtime_error
\* ("HERACLES tracing does not support registering non-typed inputs."),
\* which leaves the call site for the host operation
WipRegisterInputPtr(s, ptr, name) ==
    /\ backend = "protobuf-wip"
    /\ s \in OpenScopes
    /\ opened + regs < MaxOps /\ opened + regs + calls < HeraBudget
    /\ got' = [call |-> "registerInput(void*)", val |-> Thrown]
    /\ regs' = regs + 1
    /\ ret' = NoRet
    /\ UNCHANGED <<regVars, scopes, opened, calls, files, wipVars, wipFrame>>

WipNext ==
    \/ \E f \in FuncNames, cts \in CtLists : WipStartFunctionTrace(f, cts)
    \/ \E s \in OpenScopes, o \in Ciphertexts : WipRegisterInput(s, o)
    \/ \E s \in OpenScopes, v \in Values, n \in Names : WipRegisterInputValue(s, v, n)
    \/ \E s \in OpenScopes, p \in Pointers, n \in Names : WipRegisterInputPtr(s, p, n)
    \/ \E s \in OpenScopes, o \in HostObjects : WipRegisterOutput(s, o)
    \/ \E s \in OpenScopes, vec \in CtLists : WipRegisterOutputVector(s, vec)
    \/ \E s \in OpenScopes, str \in Strings : WipRegisterOutputString(s, str)
    \/ \E s \in OpenScopes : WipCloseScope(s)
    \/ WipSaveBinaryTrace
    \/ WipSaveJsonTrace

SpecWip == WipInit /\ [][WipNext]_vars

\* the instructions of the trace document; none while there is no document
InstructionsOf(trace) == IF trace = None THEN <<>> ELSE trace.instructions

\* the scope closes in this step after the host registered ciphertext inputs
\* and a ciphertext output through it
ClosesWithOperands(s) ==
    /\ s \in DOMAIN scopes /\ s \notin DOMAIN scopes'
    /\ scopes[s].given # <<>>
    /\ \E d \in SeqRange(scopes[s].m_currentInstruction.dests) : d.symbol_name[1] = "ciphertext"

\* C10: scope close hands the record to the sink.  When a scope of the
\* in-progress HeraclesTracer closes after ciphertext inputs and a ciphertext
\* output were registered through it, the trace's instruction list grows by
\* exactly one instruction, whose sources are the names of those inputs and
\* whose destinations are the scope's destinations.
ScopeCloseHandsRecord ==
    [][\A s \in DOMAIN scopes :
          ClosesWithOperands(s) =>
             LET before == InstructionsOf(m_FHETrace)
                 after == InstructionsOf(m_FHETrace')
             IN  /\ Len(after) = Len(before) + 1
                 /\ SubSeq(after, 1, Len(before)) = before
                 /\ after[Len(after)].dests = scopes[s].m_currentInstruction.dests
                 /\ [i \in 1..Len(after[Len(after)].srcs) |-> after[Len(after)].srcs[i].symbol_name]
                       = [i \in 1..Len(scopes[s].given) |->
                             Lookup(m_uniqueID, HashString(Serialize(scopes[s].given[i])))]]_vars

\* the tracer operations the host operations call: StartFunctionTrace,
\* registerInput(s), registerOutput
HostCallSites == {"StartFunctionTrace", "registerInput", "registerInput(void*)", "registerOutput"}

\* C11: tracing never alters host control flow.  No tracer operation called
\* from a host call site ends in an exception that propagates into the host
\* operation.
NoErrorIntoHost == got.call \in HostCallSites => got.val # Thrown

(***************************************************************************)
(* Raw-pointer registration in the complete protobuf revision              *)
(***************************************************************************)
\* std::stringstream ss; ss << std::hex << ptr
HexString(ptr) == <<"0x", ptr.ptr>>

\* registerInput(void* ptr, name, isMutable):
\* addParameter(name.empty() ? "void_ptr" : name, ss.str(), "string")
HeraRegisterInputPtr(s, ptr, name) ==
    /\ backend = "protobuf"
    /\ s \in OpenScopes
    /\ opened + regs < MaxOps /\ opened + regs + calls < HeraBudget
    /\ scopes' = [scopes EXCEPT ![s].m_currentInstruction.params =
                     ((IF name = "" THEN "void_ptr" ELSE name) :>
                         [value |-> HexString(ptr), type |-> "STRING"]) @@ @]
    /\ regs' = regs + 1
    /\ ret' = NoRet
    /\ got' = [call |-> "registerInput(void*)", val |-> None]
    /\ UNCHANGED <<regVars, opened, m_instructions, m_dataObjectPool, cacheVars, protoFrame>>

HeraPtrNext ==
    \/ HeraNext
    \/ \E s \in OpenScopes, p \in Pointers, n \in Names \cup {""} : HeraRegisterInputPtr(s, p, n)

SpecHeraPtr == HeraInit /\ [][HeraPtrNext]_vars

\* C12: raw-pointer registration is rejected by the protobuf backend.  A
\* registerInput(void*) call on a protobuf function scope signals "not
\* supported" at the call site and leaves the instruction of every open
\* scope (sources, destinations, parameters) as it was.
RawPointerRejected ==
    [][got'.call = "registerInput(void*)" =>
          /\ got'.val = Thrown
          /\ DOMAIN scopes' = DOMAIN scopes
          /\ \A s \in DOMAIN scopes :
                scopes'[s].m_currentInstruction = scopes[s].m_currentInstruction]_vars

(***************************************************************************)
(* A crypto context of a scheme the protobuf backend does not model        *)
(***************************************************************************)
\* the OpenFHE scheme ids setContext and extractFHEContext have a case for
ModelledSchemes == {"CKKSRNS_SCHEME", "BFVRNS_SCHEME", "BGVRNS_SCHEME"}

OtherContexts == {[kind |-> "cc", scheme |-> "INVALID_SCHEME"]}

HeraSchemeNext ==
    \/ HeraNext
    \/ \E cc \in OtherContexts : SetContext(cc)

SpecHeraScheme == HeraInit /\ [][HeraSchemeNext]_vars

\* C13: unsupported scheme is a fatal error.  While the context of the
\* protobuf backend has a scheme the backend does not model, no context
\* description and no trace header have been derived from it and no file
\* has been written for it: deriving them raises an error instead.
UnsupportedSchemeFatal ==
    (m_cryptoContext.kind = "cc" /\ m_cryptoContext.scheme \notin ModelledSchemes) =>
       /\ m_cachedContext = None
       /\ m_cachedFHETrace = None
       /\ got.call \in {"getTrace", "getFHEContext", "saveTrace", "saveTraceJson", "saveDataTrace"}
             => got.val = Thrown

(***************************************************************************)
(* registerInputs with a name list (part_005 186-202)                      *)
(***************************************************************************)
NameLists == {<<>>, <<"x">>, <<"x", "x">>}

Aborted == [kind |-> "abort"]

\* the loop of registerInputs(ciphertexts, names): each object takes the next
\* name while names remain and "" afterwards; addCiphertextInput does not use
\* the name.  Returns the state and the names handed out, in order.
RECURSIVE HeraRegisterInputsNamed(_, _, _, _)
HeraRegisterInputsNamed(st, cts, names, given) ==
    IF cts = <<>> THEN [st |-> st, given |-> given]
    ELSE LET name == IF names # <<>> THEN Head(names) ELSE ""
             rest == IF names # <<>> THEN Tail(names) ELSE names
         IN  HeraRegisterInputsNamed(addCiphertextInput(st, Head(cts)), Tail(cts), rest,
                                     Append(given, name))

\* HeraClesFunctionTracer::registerInputs(ciphertexts, names, isMutable)
HeraRegisterInputsCall(s, cts, names) ==
    /\ backend = "protobuf"
    /\ s \in OpenScopes
    /\ opened + regs < MaxOps /\ opened + regs + calls < HeraBudget
    /\ LET r == HeraRegisterInputsNamed(HeraState(s), cts, names, <<>>)
       IN  /\ HeraCommit(s, r.st)
           /\ got' = [call |-> "registerInputs", objects |-> cts, names |-> names,
                      given |-> r.given, val |-> None]
    /\ regs' = regs + 1
    /\ ret' = NoRet
    /\ UNCHANGED <<opened, m_instructions, cacheVars, protoFrame>>

HeraNamesNext ==
    \/ HeraNext
    \/ \E s \in OpenScopes, cts \in CtLists, names \in NameLists : HeraRegisterInputsCall(s, cts, names)

SpecHeraNames == HeraInit /\ [][HeraNamesNext]_vars

\* C14: arity mismatch is fatal.  A registerInputs call with a non-empty name
\* list whose length differs from the number of objects aborts and changes
\* neither the registry nor any scope; with an empty name list every object
\* is registered under the empty name.
ArityMismatchFatal ==
    [][got'.call = "registerInputs" =>
          /\ (got'.names # <<>> /\ Len(got'.names) # Len(got'.objects)) =>
                /\ got'.val = Aborted
                /\ UNCHANGED <<m_uniqueID, m_counters, scopes, m_dataObjectPool>>
          /\ got'.names = <<>> =>
                /\ got'.val = None
                /\ Len(got'.given) = Len(got'.objects)
                /\ \A i \in 1..Len(got'.given) : got'.given[i] = ""]_vars

(***************************************************************************)
(* The streaming revision of the text tracer (part_000): a scope prints    *)
(* its header when it opens and one line per registration                  *)
(***************************************************************************)
TruncateAt == 16    \* "std::min(values.size(), size_t(16))"

IndentStep == 2     \* "m_level += 2"

MaxVecLen == 18     \* longest vector handed to registerInput

Int64Vectors == {[i \in 1..L |-> i] : L \in 0..MaxVecLen}

Min(a, b) == IF a < b THEN a ELSE b

\* for (size_t i = 1; i < std::min(values.size(), size_t(16)); ++i) ss << ", " << values[i];
RECURSIVE formatVectorLoop(_, _, _)
formatVectorLoop(values, i, out) ==
    IF i < Min(Len(values), TruncateAt)
    THEN formatVectorLoop(values, i + 1,
                          out \o <<[tok |-> "sep", s |-> ", "], [tok |-> "elem", v |-> values[i + 1]]>>)
    ELSE out

\* a formatter that stops after the element at index 10 and always appends a
\* marker there, as the buffered revision's formatter does
formatVector_break10(values, elementTypeName) ==
    LET n    == Min(Len(values), VecBreakIndex + 1)
        more == IF Len(values) > VecBreakIndex
                THEN <<[tok |-> "more", n |-> Len(values) - VecBreakIndex - 1]>> ELSE <<>>
    IN  <<[tok |-> "text", s |-> "["]>>
        \o [i \in 1..n |-> [tok |-> "elem", v |-> values[i]]]
        \o more
        \o <<[tok |-> "text", s |-> "] : " \o elementTypeName]>>

\* formatVector(values, elementTypeName): the tokens written, in order
formatVector(values, elementTypeName) ==
    IF Len(values) = 0
    THEN <<[tok |-> "text", s |-> "[] : " \o elementTypeName]>>
    ELSE <<[tok |-> "text", s |-> "["], [tok |-> "elem", v |-> values[1]]>>
         \o formatVectorLoop(values, 1, <<>>)
         \o (IF Len(values) > TruncateAt
             THEN <<[tok |-> "more", n |-> Len(values) - TruncateAt]>> ELSE <<>>)
         \o <<[tok |-> "text", s |-> "] : vector<" \o elementTypeName \o ">"]>>

\* SimpleTracer(stream)
StreamInit ==
    /\ backend = "text-stream"
    /\ RegistryInit /\ ScopeInit
    /\ m_idMap = <<>>
    /\ ProtoInit /\ NoWip /\ ThreadInit

\* StartFunctionTrace(func): m_level += 2, then the scope's constructor prints
\* "func:" at that level and indents its own lines one further
\* (sid and of are history labels of a line, not text)
StreamStartFunctionTrace(func) ==
    /\ backend = "text-stream"
    /\ opened + regs < MaxOps
    /\ m_level' = m_level + IndentStep
    /\ LET sid == opened + 1
       IN  /\ stream' = Append(stream, [sid |-> sid, tabs |-> m_level', kind |-> "header",
                                        func |-> func])
           /\ scopes' = (sid :> [m_func |-> func, m_level |-> m_level' + 1]) @@ scopes
    /\ opened' = opened + 1
    /\ ret' = NoRet
    /\ UNCHANGED <<regVars, regs, lifo, plainFrame>>

\* registerInput(Ciphertext | ConstCiphertext | Plaintext, name): registerObject
StreamRegisterInput(s, obj, type, name) ==
    /\ backend = "text-stream"
    /\ s \in OpenScopes
    /\ opened + regs < MaxOps
    /\ LET g == getObjectId(Registry, obj, type)
       IN  /\ m_uniqueID' = g.uid
           /\ m_counters' = g.ctr
           /\ resolved' = resolved \cup {<<g.hash, g.id>>}
           /\ stream' = Append(stream, [sid |-> s, tabs |-> scopes[s].m_level, kind |-> "object",
                                        inOut |-> "input", name |-> name, id |-> g.id,
                                        type |-> type])
    /\ regs' = regs + 1
    /\ ret' = NoRet
    /\ UNCHANGED <<m_level, scopes, opened, lifo, plainFrame>>

\* registerInput(const std::vector<int64_t>& values, name): registerValues
StreamRegisterInputValues(s, values, name) ==
    /\ backend = "text-stream"
    /\ s \in OpenScopes
    /\ opened + regs < MaxOps
    /\ stream' = Append(stream, [sid |-> s, tabs |-> scopes[s].m_level, kind |-> "values",
                                 inOut |-> "input", name |-> name,
                                 text |-> formatVector(values, "int64_t"), of |-> values])
    /\ regs' = regs + 1
    /\ ret' = NoRet
    /\ UNCHANGED <<regVars, m_level, scopes, opened, lifo, plainFrame>>

\* ~SimpleFunctionTracer: m_tracer->EndFunction(), "if (m_level > 0) m_level -= 2"
StreamCloseScope(s) ==
    /\ backend = "text-stream"
    /\ s \in OpenScopes
    /\ m_level' = (IF m_level > 0 THEN m_level - IndentStep ELSE m_level)
    /\ scopes' = RemoveKey(scopes, s)
    /\ lifo' = (lifo /\ s = Max(OpenScopes))
    /\ ret' = NoRet
    /\ UNCHANGED <<regVars, opened, regs, stream, plainFrame>>

StreamNext ==
    \/ \E f \in FuncNames : StreamStartFunctionTrace(f)
    \/ \E s \in OpenScopes, o \in Ciphertexts \cup Plaintexts, n \in Names \cup {""} :
          \E t \in TagsOf(o) : StreamRegisterInput(s, o, t, n)
    \/ \E s \in OpenScopes, v \in Int64Vectors, n \in Names : StreamRegisterInputValues(s, v, n)
    \/ \E s \in OpenScopes : StreamCloseScope(s)

SpecStream == StreamInit /\ [][StreamNext]_vars

\* C16: nesting level tracks open scopes.  In the text tracer the facade's
\* nesting level equals the number of function scopes currently open (so it
\* is 0 when none is open and is never negative).
NestingLevelTracksScopes ==
    backend \in {"text", "text-stream"} =>
       /\ m_level = Cardinality(OpenScopes)
       /\ m_level >= 0

ElemsOf(text) == Cardinality({i \in 1..Len(text) : text[i].tok = "elem"})

MarkersOf(text) == {i \in 1..Len(text) : text[i].tok = "more"}

\* C19: truncation law of the threshold-16 formatter.  Every formatted vector
\* of length L shows exactly min(L, 16) elements, the first ones in order;
\* it carries a marker exactly when L > 16, that marker is the last token
\* before the closing text and states L - 16.
TruncationLaw16 ==
    \A k \in 1..Len(stream) :
       stream[k].kind = "values" =>
          LET text == stream[k].text
              L    == Len(stream[k].of)
              es   == [i \in 1..Len(text) |-> text[i].tok = "elem"]
          IN  /\ ElemsOf(text) = Min(L, 16)
              /\ \A i \in 1..Len(text) : text[i].tok = "elem" =>
                    text[i].v = stream[k].of[Cardinality({j \in 1..i : es[j]})]
              /\ (MarkersOf(text) # {}) <=> (L > 16)
              /\ \A i \in MarkersOf(text) : i = Len(text) - 1 /\ text[i].n = L - 16

\* vectors of 0, 16 and more than 16 elements have been formatted
TruncationLaw16Witness ==
    /\ \E k \in 1..Len(stream) : stream[k].kind = "values" /\ Len(stream[k].of) > 16
                                  /\ MarkersOf(stream[k].text) # {}
    /\ \E k \in 1..Len(stream) : stream[k].kind = "values" /\ Len(stream[k].of) \in {0, 16}

\* C18: IR register names come from the identity registry.  In the IR backend
\* names are resolved by content: any two registered objects that serialize
\* to the same bytes, at whatever addresses, have the same register name.
RegisterNamesByContent ==
    backend = "ir" =>
       \A o1, o2 \in HostObjects :
          (o1.ptr \in DOMAIN m_idMap /\ o2.ptr \in DOMAIN m_idMap
              /\ Serialize(o1) = Serialize(o2)) => m_idMap[o1.ptr] = m_idMap[o2.ptr]

(***************************************************************************)
(* The data-movement tracer of the address-keyed text tracer (part_002)    *)
(***************************************************************************)
DataPrefixes == {"ct", "pt", "obj"}

MaxMoves == MaxOps + 1      \* TraceDataUpdate and registration calls in one run

\* SimpleTracer::typePrefix(type): by the substring the type string holds
typePrefix(type) ==
    IF type \in {"ciphertext", "constciphertext"} THEN "ct"
    ELSE IF type = "plaintext" THEN "pt"
    ELSE "obj"

\* SimpleTracer::GetId(ptr, type) on the maps m = [ids, ctr]
SimpleGetId(m, ptr, type) ==
    IF ptr \in DOMAIN m.ids
    THEN [ids |-> m.ids, ctr |-> m.ctr, id |-> m.ids[ptr]]
    ELSE LET prefix == typePrefix(type)
             value  == <<prefix, m.ctr[prefix] + 1>>
         IN  [ids |-> (ptr :> value) @@ m.ids, ctr |-> [m.ctr EXCEPT ![prefix] = @ + 1],
              id |-> value]

\* SimpleTracer::Alias(dest, src, type): m_idMap[dest] = GetId(src, type)
Alias(m, dest, src, type) ==
    LET g == SimpleGetId(m, src, type)
    IN  [ids |-> [p \in DOMAIN g.ids \cup {dest} |-> IF p = dest THEN g.id ELSE g.ids[p]],
         ctr |-> g.ctr]

\* name.empty() ? "ciphertext" : name, and likewise for a plaintext
NameOr(obj, name) ==
    IF name # "" THEN name ELSE IF obj.kind = "pt" THEN "plaintext" ELSE "ciphertext"

dataFrame == <<backend, resolved, m_uniqueID, m_level, lifo, m_instructions, m_dataObjectPool,
               m_cryptoContext, m_scheme, cacheVars, wipVars, thrVars>>

\* SimpleTracer(stream)
DataInit ==
    /\ backend = "text-data"
    /\ m_uniqueID = <<>> /\ resolved = {}
    /\ m_counters = [p \in DataPrefixes |-> 0]
    /\ m_idMap = <<>>
    /\ ScopeInit
    /\ ProtoInit /\ NoWip /\ ThreadInit

\* SimpleTracer::TraceDataUpdate(function_name): a SimpleDataTracer at the
\* current level; m_level is left as it is
TraceDataUpdate(label) ==
    /\ backend = "text-data"
    /\ opened + regs < MaxMoves
    /\ scopes' = ((opened + 1) :> [m_label |-> label, m_level |-> m_level, m_sourcePtrs |-> <<>>,
                                   m_sources |-> <<>>, m_dests |-> <<>>]) @@ scopes
    /\ opened' = opened + 1
    /\ ret' = NoRet /\ got' = NoGot
    /\ UNCHANGED <<m_counters, m_idMap, regs, stream, dataFrame>>

\* registerSource(object, name): addSource
DataRegisterSource(s, obj, name) ==
    /\ backend = "text-data"
    /\ s \in OpenScopes
    /\ opened + regs < MaxMoves
    /\ LET type == NameOr(obj, name)
           g    == SimpleGetId(IdMaps, obj.ptr, type)
       IN  /\ scopes' = [scopes EXCEPT ![s].m_sources = Append(@, <<type, "@", g.id>>),
                                       ![s].m_sourcePtrs = Append(@, obj.ptr)]
           /\ m_idMap' = g.ids
           /\ m_counters' = g.ctr
           /\ got' = [call |-> "registerSource", sid |-> s, id |-> g.id, val |-> None]
    /\ regs' = regs + 1
    /\ ret' = NoRet
    /\ UNCHANGED <<opened, stream, dataFrame>>

\* registerDestination(object, name): addDest
DataRegisterDestination(s, obj, name) ==
    /\ backend = "text-data"
    /\ s \in OpenScopes
    /\ opened + regs < MaxMoves
    /\ LET type == NameOr(obj, name)
           m    == IF Len(scopes[s].m_sourcePtrs) = 1
                   THEN Alias(IdMaps, obj.ptr, scopes[s].m_sourcePtrs[1], type)
                   ELSE IdMaps
           g    == SimpleGetId(m, obj.ptr, type)
       IN  /\ scopes' = [scopes EXCEPT ![s].m_dests = Append(@, <<type, "@", g.id>>)]
           /\ m_idMap' = g.ids
           /\ m_counters' = g.ctr
           /\ got' = [call |-> "registerDestination", sid |-> s, id |-> g.id, val |-> None]
    /\ regs' = regs + 1
    /\ ret' = NoRet
    /\ UNCHANGED <<opened, stream, dataFrame>>

\* ~SimpleDataTracer: m_level tabs, the label, printList(sources), printList(dests)
DataCloseScope(s) ==
    /\ backend = "text-data"
    /\ s \in OpenScopes
    /\ stream' = Append(stream, [sid |-> s, tabs |-> scopes[s].m_level, label |-> scopes[s].m_label,
                                 sources |-> scopes[s].m_sources, dests |-> scopes[s].m_dests])
    /\ scopes' = RemoveKey(scopes, s)
    /\ ret' = NoRet /\ got' = NoGot
    /\ UNCHANGED <<m_counters, m_idMap, opened, regs, dataFrame>>

DataNext ==
    \/ \E l \in FuncNames : TraceDataUpdate(l)
    \/ \E s \in OpenScopes, o \in Ciphertexts \cup Plaintexts, n \in Names \cup {""} :
          DataRegisterSource(s, o, n)
    \/ \E s \in OpenScopes, o \in Ciphertexts \cup Plaintexts, n \in Names \cup {""} :
          DataRegisterDestination(s, o, n)
    \/ \E s \in OpenScopes : DataCloseScope(s)

SpecData == DataInit /\ [][DataNext]_vars

\* C17: alias inheritance in the data-movement tracer.  A destination
\* registered in a data-movement scope that has at least one registered
\* source is given the identifier of one of those sources, and registering
\* it advances no counter.
AliasInheritance ==
    [][(got'.call = "registerDestination" /\ got'.sid \in DOMAIN scopes
           /\ Len(scopes[got'.sid].m_sourcePtrs) >= 1) =>
          /\ \E i \in 1..Len(scopes[got'.sid].m_sourcePtrs) :
                got'.id = m_idMap[scopes[got'.sid].m_sourcePtrs[i]]
          /\ m_counters' = m_counters]_vars

(***************************************************************************)
(* The text tracer constructed on a file name (simpletracer.h 451-452):    *)
(* m_stream is a std::ofstream opened on it, whatever the outcome          *)
(***************************************************************************)
FileNames == {"openfhe-trace.txt", "/no/such/dir/trace.txt"}

\* the file names an ofstream can open for writing
Openable == {"openfhe-trace.txt"}

\* SimpleTracer(filename): std::make_shared<std::ofstream>(filename, std::ios::out)
\* sets failbit on a file it cannot open and throws nothing; files is the set
\* of files opened, got the outcome of the constructor call
FileInit ==
    /\ backend = "text-file"
    /\ RegistryInit /\ ScopeInit
    /\ m_idMap = <<>>
    /\ m_instructions = <<>> /\ m_dataObjectPool = <<>>
    /\ m_cryptoContext = None /\ m_scheme = "SCHEME_CKKS"
    /\ m_cachedFHETrace = None /\ m_cachedContext = None /\ m_cachedTestVector = None
    /\ derived = [a \in {"trace", "context", "testvector"} |-> 0]
    /\ calls = 0
    /\ \E filename \in FileNames :
          /\ files = {filename} \cap Openable
          /\ got = [call |-> "SimpleTracer(filename)", filename |-> filename, val |-> None]
    /\ NoWip /\ ThreadInit

\* StartFunctionTrace(func)
FileStartFunctionTrace(func) ==
    /\ backend = "text-file"
    /\ opened + regs < MaxOps
    /\ scopes' = ((opened + 1) :> [m_func |-> func, m_level |-> m_level, m_inputs |-> <<>>,
                                   m_outputs |-> <<>>, parents |-> OpenScopes]) @@ scopes
    /\ m_level' = m_level + 1
    /\ opened' = opened + 1
    /\ ret' = NoRet
    /\ UNCHANGED <<regVars, stream, lifo, regs, plainFrame>>

\* registerInput(Ciphertext | ConstCiphertext | Plaintext, name)
FileRegisterInput(s, obj, type, name) ==
    /\ backend = "text-file"
    /\ s \in OpenScopes
    /\ opened + regs < MaxOps
    /\ LET r == registerObjectHelper(Registry, obj, type, name, scopes[s].m_inputs)
       IN  /\ scopes' = [scopes EXCEPT ![s].m_inputs = r.target]
           /\ m_uniqueID' = r.uid
           /\ m_counters' = r.ctr
           /\ resolved' = resolved \cup {<<r.hash, r.id>>}
    /\ regs' = regs + 1
    /\ ret' = NoRet
    /\ UNCHANGED <<m_level, opened, stream, lifo, plainFrame>>

\* ~SimpleFunctionTracer: operator<< on a stream whose failbit is set writes
\* nothing; then m_tracer->EndFunction()
FileCloseScope(s) ==
    /\ backend = "text-file"
    /\ s \in OpenScopes
    /\ stream' = IF got.filename \in files THEN Append(stream, TraceLine(s, scopes[s])) ELSE stream
    /\ m_level' = EndFunction(m_level)
    /\ scopes' = RemoveKey(scopes, s)
    /\ lifo' = (lifo /\ s = Max(OpenScopes))
    /\ ret' = NoRet
    /\ UNCHANGED <<regVars, opened, regs, plainFrame>>

FileNext ==
    \/ \E f \in FuncNames : FileStartFunctionTrace(f)
    \/ \E s \in OpenScopes, o \in Ciphertexts \cup Plaintexts, n \in Names :
          \E t \in TagsOf(o) : FileRegisterInput(s, o, t, n)
    \/ \E s \in OpenScopes : FileCloseScope(s)

SpecFile == FileInit /\ [][FileNext]_vars

\* C20: resource errors surface at construction.  A text tracer constructed
\* on a file name that cannot be opened has reported the failure from its
\* constructor, and no scope has been opened on it.
ResourceErrorsSurface ==
    (got.call = "SimpleTracer(filename)" /\ got.filename \notin files) =>
       /\ got.val = Thrown
       /\ opened = 0

(***************************************************************************)
(* MlirTracer::ConvertFuncToOp applied to function names                   *)
(***************************************************************************)
MaxNameLen == 3     \* longest name outside the table handed to ConvertFuncToOp

Letters == {"A", "E", "a", "d", "_"}

RECURSIVE SeqsUpTo(_, _)
SeqsUpTo(S, n) ==
    IF n = 0 THEN {<<>>}
    ELSE LET shorter == SeqsUpTo(S, n - 1)
         IN  shorter \cup {Append(q, c) : q \in shorter, c \in S}

FuncSpellings == SeqsUpTo(Letters, MaxNameLen) \cup DOMAIN m_funcMap

\* MlirTracer(stream), before any scope
OpInit ==
    /\ backend = "ir-op"
    /\ m_uniqueID = <<>> /\ resolved = {}
    /\ m_counters = [p \in Prefixes |-> 0]
    /\ m_idMap = <<>>
    /\ ScopeInit
    /\ ProtoInit /\ NoWip /\ ThreadInit

\* a call of ConvertFuncToOp(func); got holds the argument and the result
ConvertCall(func) ==
    /\ backend = "ir-op"
    /\ got' = [call |-> "ConvertFuncToOp", arg |-> func, val |-> ConvertFuncToOp(func)]
    /\ UNCHANGED <<backend, regVars, scopeVars, m_idMap, m_instructions, m_dataObjectPool,
                   cacheVars, wipVars, thrVars>>

OpNext == \E func \in FuncSpellings : ConvertCall(func)

SpecOp == OpInit /\ [][OpNext]_vars

\* the number of separators written up to and including position i of n
SepsUpTo(n, i) == Cardinality({j \in 2..i : n[j] \in {"A", "E", "S"}})

Levels == {0, 1}

OpenFHEException == [kind |-> "exception"]

\* the frames of callers that declare no handler may be unwound too
InFlight == got.val = OpenFHEException

HostInit ==
    /\ backend = "text-host"
    /\ RegistryInit /\ ScopeInit
    /\ m_idMap = <<>>
    /\ ProtoInit /\ NoWip /\ ThreadInit

hostFrame == <<backend, m_idMap, m_instructions, m_dataObjectPool, cacheVars, wipVars, thrVars>>

\* the two IF_TRACE statements at the head of the operation:
\* StartFunctionTrace(name, {ciphertext}), then registerInput(levels, "levels")
\* (levels and ct are kept with the scope as the frame's arguments)
ModReduceEnter(ciphertext, levels) ==
    /\ backend = "text-host"
    /\ ~InFlight
    /\ opened + regs < MaxOps
    /\ LET r == registerObjectsHelper(Registry, <<ciphertext>>, "ciphertext", <<>>, {})
       IN  /\ scopes' = ((opened + 1) :>
                            [m_func |-> "ModReduceInternalInPlace", m_level |-> m_level,
                             m_inputs |-> Append(r.target, [name |-> "levels", value |-> levels,
                                                            type |-> "size_t"]),
                             m_outputs |-> <<>>, parents |-> OpenScopes,
                             ct |-> ciphertext, levels |-> levels]) @@ scopes
           /\ m_uniqueID' = r.uid
           /\ m_counters' = r.ctr
           /\ resolved' = resolved \cup r.seen
    /\ m_level' = m_level + 1
    /\ opened' = opened + 1
    /\ regs' = regs + 1
    /\ ret' = NoRet /\ got' = NoGot
    /\ UNCHANGED <<stream, lifo, hostFrame>>

\* usint sizeQl = cv[0].GetNumOfElements()
SizeQl(ciphertext) == GetNumOfElements(GetElements(ciphertext)[1])

\* the branch taken: enough towers, then registerOutput(ciphertext) and the
\* return, which destroys the handle
ModReduceReturn(s) ==
    /\ backend = "text-host"
    /\ ~InFlight
    /\ s \in OpenScopes /\ s = Max(OpenScopes)
    /\ SizeQl(scopes[s].ct) > scopes[s].levels /\ SizeQl(scopes[s].ct) > 0
    /\ LET r  == SimpleRegisterOutput(Registry, scopes[s].ct, "ciphertext", "", scopes[s].m_outputs)
           sc == [scopes[s] EXCEPT !.m_outputs = r.target]
       IN  /\ m_uniqueID' = r.uid
           /\ m_counters' = r.ctr
           /\ resolved' = resolved \cup {<<r.hash, r.id>>}
           /\ stream' = Append(stream, TraceLine(s, sc))
    /\ m_level' = EndFunction(m_level)
    /\ scopes' = RemoveKey(scopes, s)
    /\ ret' = NoRet /\ got' = NoGot
    /\ UNCHANGED <<opened, regs, lifo, hostFrame>>

\* a throw that takes the handle with it unfinalized
ModReduceThrow_leak(s) ==
    /\ backend = "text-host"
    /\ ~InFlight
    /\ s \in OpenScopes /\ s = Max(OpenScopes)
    /\ ~(SizeQl(scopes[s].ct) > scopes[s].levels /\ SizeQl(scopes[s].ct) > 0)
    /\ got' = [call |-> "ModReduceInternalInPlace", val |-> OpenFHEException]
    /\ ret' = NoRet
    /\ UNCHANGED <<regVars, m_level, scopes, stream, opened, regs, lifo, hostFrame>>

\* the other branch: OPENFHE_THROW("ERROR: Not enough towers to support
\* ModReduce."); unwinding the frame runs ~SimpleFunctionTracer
ModReduceThrow(s) ==
    /\ backend = "text-host"
    /\ ~InFlight
    /\ s \in OpenScopes /\ s = Max(OpenScopes)
    /\ ~(SizeQl(scopes[s].ct) > scopes[s].levels /\ SizeQl(scopes[s].ct) > 0)
    /\ stream' = Append(stream, TraceLine(s, scopes[s]))
    /\ m_level' = EndFunction(m_level)
    /\ scopes' = RemoveKey(scopes, s)
    /\ got' = [call |-> "ModReduceInternalInPlace", val |-> OpenFHEException]
    /\ ret' = NoRet
    /\ UNCHANGED <<regVars, opened, regs, lifo, hostFrame>>

\* the exception leaves a calling operation's frame, whose handle is destroyed
HostUnwind(s) ==
    /\ backend = "text-host"
    /\ InFlight
    /\ s \in OpenScopes /\ s = Max(OpenScopes)
    /\ stream' = Append(stream, TraceLine(s, scopes[s]))
    /\ m_level' = EndFunction(m_level)
    /\ scopes' = RemoveKey(scopes, s)
    /\ ret' = NoRet
    /\ UNCHANGED <<regVars, opened, regs, lifo, got, hostFrame>>

\* a caller's handler takes the exception
HostCatch ==
    /\ backend = "text-host"
    /\ InFlight
    /\ got' = NoGot
    /\ ret' = NoRet
    /\ UNCHANGED <<regVars, scopeVars, hostFrame>>

HostNext ==
    \/ \E ct \in Ciphertexts, l \in Levels : ModReduceEnter(ct, l)
    \/ \E s \in OpenScopes : ModReduceReturn(s)
    \/ \E s \in OpenScopes : ModReduceThrow(s)
    \/ \E s \in OpenScopes : HostUnwind(s)
    \/ HostCatch

SpecHost == HostInit /\ [][HostNext]_vars

LinesFor(s) == {k \in 1..Len(stream) : stream[k].sid = s}

\* C22: exactly-once finalization on the error path.  No scope ever has more
\* than one line.  The step in which the operation raises its error appends
\* exactly one line, that of the operation's scope, holding the inputs
\* registered so far and no output, removes the scope, and sets the nesting
\* level to the value it had when the operation started.
FinalizedOnError ==
    /\ [](\A s \in 1..opened : Cardinality(LinesFor(s)) <= 1)
    /\ [][(~InFlight /\ got'.val = OpenFHEException) =>
             \E s \in DOMAIN scopes :
                /\ DOMAIN scopes' = DOMAIN scopes \ {s}
                /\ Len(stream') = Len(stream) + 1
                /\ SubSeq(stream', 1, Len(stream)) = stream
                /\ stream'[Len(stream')].sid = s
                /\ stream'[Len(stream')].inputs = scopes[s].m_inputs
                /\ Len(scopes[s].m_inputs) = 2
                /\ stream'[Len(stream')].outputs = <<>>
                /\ m_level' = scopes[s].m_level]_vars

\* an operation nested in another has raised, with its line written
FinalizedOnErrorWitness ==
    /\ backend = "text-host"
    /\ InFlight
    /\ scopes # <<>>
    /\ \E k \in 1..Len(stream) : stream[k].outputs = <<>> /\ stream[k].tabs = 1
    /\ m_level = 1

(***************************************************************************)
(* Two threads registering through scopes of one shared HeraclesTracer:    *)
(* getObjectId statement by statement, then storeData under the mutex      *)
(***************************************************************************)
thrFrame == <<backend, m_level, scopes, opened, stream, ret, lifo, m_idMap, m_instructions,
              m_cryptoContext, m_scheme, m_cachedFHETrace, m_cachedContext, m_cachedTestVector,
              derived, calls, files, got, wipVars>>

\* HeraclesTracer(filename), shared by the threads
ThreadsInit ==
    /\ backend = "protobuf-threads"
    /\ RegistryInit /\ ScopeInit
    /\ m_idMap = <<>>
    /\ ProtoInit /\ NoWip /\ ThreadInit

\* thread t registers a ciphertext through its scope and enters
\* getObjectId(obj, "ciphertext"): serializes and hashes the object
ThrCall(t, obj) ==
    /\ backend = "protobuf-threads"
    /\ pc[t] = "idle"
    /\ regs < MaxOps
    /\ tlocal' = [tlocal EXCEPT ![t] = [kind |-> "call", obj |-> obj, type |-> "ciphertext",
                                        hash |-> HashString(Serialize(obj)), n |-> 0, id |-> NoId]]
    /\ pc' = [pc EXCEPT ![t] = "find"]
    /\ regs' = regs + 1
    /\ UNCHANGED <<regVars, m_dataObjectPool, m_mutex, thrFrame>>

\* m_uniqueID.find(hash): a hit returns the name found
ThrFind(t) ==
    /\ backend = "protobuf-threads"
    /\ pc[t] = "find"
    /\ IF tlocal[t].hash \in DOMAIN m_uniqueID
       THEN /\ tlocal' = [tlocal EXCEPT ![t].id = m_uniqueID[tlocal[t].hash]]
            /\ resolved' = resolved \cup {<<tlocal[t].hash, m_uniqueID[tlocal[t].hash]>>}
            /\ pc' = [pc EXCEPT ![t] = "lock"]
       ELSE /\ pc' = [pc EXCEPT ![t] = "count"]
            /\ UNCHANGED <<tlocal, resolved>>
    /\ UNCHANGED <<m_uniqueID, m_counters, regs, m_dataObjectPool, m_mutex, thrFrame>>

\* size_t& counter = m_counters[type]; the read of ++counter
ThrCount(t) ==
    /\ backend = "protobuf-threads"
    /\ pc[t] = "count"
    /\ tlocal' = [tlocal EXCEPT ![t].n = m_counters[tlocal[t].type]]
    /\ pc' = [pc EXCEPT ![t] = "incr"]
    /\ UNCHANGED <<regVars, regs, m_dataObjectPool, m_mutex, thrFrame>>

\* the write of ++counter; id = type + "_" + std::to_string(counter)
ThrIncr(t) ==
    /\ backend = "protobuf-threads"
    /\ pc[t] = "incr"
    /\ m_counters' = [m_counters EXCEPT ![tlocal[t].type] = tlocal[t].n + 1]
    /\ tlocal' = [tlocal EXCEPT ![t].id = MakeId(tlocal[t].type, tlocal[t].n + 1)]
    /\ pc' = [pc EXCEPT ![t] = "insert"]
    /\ UNCHANGED <<m_uniqueID, resolved, regs, m_dataObjectPool, m_mutex, thrFrame>>

\* m_uniqueID[hash] = id; return id
ThrInsert(t) ==
    /\ backend = "protobuf-threads"
    /\ pc[t] = "insert"
    /\ m_uniqueID' = (tlocal[t].hash :> tlocal[t].id) @@ m_uniqueID
    /\ resolved' = resolved \cup {<<tlocal[t].hash, tlocal[t].id>>}
    /\ pc' = [pc EXCEPT ![t] = "lock"]
    /\ UNCHANGED <<m_counters, regs, m_dataObjectPool, tlocal, m_mutex, thrFrame>>

\* storeData: std::lock_guard<std::mutex> lock(m_mutex)
ThrLock(t) ==
    /\ backend = "protobuf-threads"
    /\ pc[t] = "lock"
    /\ m_mutex = 0
    /\ m_mutex' = t
    /\ pc' = [pc EXCEPT ![t] = "store"]
    /\ UNCHANGED <<regVars, regs, m_dataObjectPool, tlocal, thrFrame>>

\* storeData: m_dataObjectPool[objectId] = dcrtpolys; the lock is released on return
ThrStoreData(t) ==
    /\ backend = "protobuf-threads"
    /\ pc[t] = "store"
    /\ m_mutex = t
    /\ m_dataObjectPool' = storeData(m_dataObjectPool, tlocal[t].id, GetElements(tlocal[t].obj))
    /\ m_mutex' = 0
    /\ pc' = [pc EXCEPT ![t] = "idle"]
    /\ tlocal' = [tlocal EXCEPT ![t] = None]
    /\ UNCHANGED <<regVars, regs, thrFrame>>

ThreadsNext ==
    \/ \E t \in Threads, o \in Ciphertexts : ThrCall(t, o)
    \/ \E t \in Threads : ThrFind(t)
    \/ \E t \in Threads : ThrCount(t)
    \/ \E t \in Threads : ThrIncr(t)
    \/ \E t \in Threads : ThrInsert(t)
    \/ \E t \in Threads : ThrLock(t)
    \/ \E t \in Threads : ThrStoreData(t)

SpecThreads == ThreadsInit /\ [][ThreadsNext]_vars

\* C8: thread safety of the protobuf backend's identity registry.  Under
\* every interleaving of two threads registering through one shared
\* HeraclesTracer, each content hash receives exactly one symbolic name and
\* no two distinct hashes receive the same name.
RegistryThreadSafe ==
    \A p \in resolved, q \in resolved :
       /\ p[1] = q[1] => p[2] = q[2]
       /\ p[2] = q[2] => p[1] = q[1]

(***************************************************************************)
(* Every backend the host can install                                      *)
(***************************************************************************)
(* The protobuf scope with the history of what was registered through it:  *)
(* given lists the objects passed as inputs, outs the outputs passed       *)
(***************************************************************************)
EmitInit ==
    /\ backend = "protobuf-emit"
    /\ RegistryInit /\ ScopeInit
    /\ m_idMap = <<>>
    /\ ProtoInit /\ NoWip /\ ThreadInit

\* scope s after a registration that left st behind and noted h
EmitCommit(s, st, given, outs) ==
    /\ scopes' = [scopes EXCEPT ![s].m_currentInstruction = st.ins,
                                ![s].m_inputObjectIds = st.inputIds,
                                ![s].m_hasOutput = st.hasOutput,
                                ![s].given = given,
                                ![s].outs = outs]
    /\ m_uniqueID' = st.uid
    /\ m_counters' = st.ctr
    /\ m_dataObjectPool' = st.pool
    /\ resolved' = resolved \cup st.seen

\* HeraclesTracer::StartFunctionTrace(func [, ciphertexts])
EmitStartFunctionTrace(func, cts) ==
    /\ backend = "protobuf-emit"
    /\ opened + regs < MaxOps
    /\ LET sid == opened + 1
           st0 == [uid |-> m_uniqueID, ctr |-> m_counters, pool |-> m_dataObjectPool,
                   ins |-> [op |-> ToLower(func), plaintext_index |-> 0, srcs |-> <<>>,
                            dests |-> <<>>, params |-> <<>>],
                   inputIds |-> <<>>, hasOutput |-> FALSE, seen |-> {}]
           st == HeraRegisterInputs(st0, cts)
       IN  /\ scopes' = (sid :> [m_func |-> func, m_currentInstruction |-> st.ins,
                                 m_inputObjectIds |-> st.inputIds,
                                 m_hasOutput |-> st.hasOutput,
                                 given |-> cts, outs |-> <<>>]) @@ scopes
           /\ m_uniqueID' = st.uid
           /\ m_counters' = st.ctr
           /\ m_dataObjectPool' = st.pool
           /\ resolved' = resolved \cup st.seen
    /\ opened' = opened + 1
    /\ ret' = NoRet /\ got' = NoGot
    /\ UNCHANGED <<regs, m_instructions, cacheVars, protoFrame>>

\* registerInput(Ciphertext | ConstCiphertext | Plaintext | ConstPlaintext)
EmitRegisterInput(s, obj) ==
    /\ backend = "protobuf-emit"
    /\ s \in OpenScopes
    /\ opened + regs < MaxOps
    /\ EmitCommit(s, IF obj.kind = "pt" THEN addPlaintextInput(HeraState(s), obj)
                                         ELSE addCiphertextInput(HeraState(s), obj),
                  Append(scopes[s].given, obj), scopes[s].outs)
    /\ regs' = regs + 1
    /\ ret' = NoRet /\ got' = NoGot
    /\ UNCHANGED <<opened, m_instructions, cacheVars, protoFrame>>

\* registerOutput(Ciphertext | ConstCiphertext | Plaintext)
EmitRegisterOutput(s, obj) ==
    /\ backend = "protobuf-emit"
    /\ s \in OpenScopes
    /\ opened + regs < MaxOps
    /\ LET r == HeraRegisterOutputHandle(HeraState(s), obj)
       IN  /\ EmitCommit(s, r.st, scopes[s].given, Append(scopes[s].outs, obj))
           /\ ret' = [kind |-> "handle", arg |-> obj, val |-> r.ret]
    /\ regs' = regs + 1
    /\ got' = NoGot
    /\ UNCHANGED <<opened, m_instructions, cacheVars, protoFrame>>

\* registerOutput(const std::string&) (and the key overloads)
EmitRegisterOutputString(s, str) ==
    /\ backend = "protobuf-emit"
    /\ s \in OpenScopes
    /\ opened + regs < MaxOps
    /\ scopes' = [scopes EXCEPT ![s].m_hasOutput = TRUE,
                                ![s].outs = Append(@, [kind |-> "string", str |-> str])]
    /\ ret' = [kind |-> "string", arg |-> str, val |-> str]
    /\ regs' = regs + 1
    /\ got' = NoGot
    /\ UNCHANGED <<regVars, opened, m_instructions, m_dataObjectPool, cacheVars, protoFrame>>

\* ~HeraClesFunctionTracer; got keeps the closed scope's history
EmitCloseScope(s) ==
    /\ backend = "protobuf-emit"
    /\ s \in OpenScopes
    /\ m_instructions' = HeraAddInstruction(m_instructions, scopes[s])
    /\ scopes' = RemoveKey(scopes, s)
    /\ got' = [call |-> "~HeraClesFunctionTracer", val |-> None, sid |-> s,
               given |-> scopes[s].given, outs |-> scopes[s].outs]
    /\ ret' = NoRet
    /\ UNCHANGED <<regVars, opened, regs, m_dataObjectPool, cacheVars, protoFrame>>

EmitNext ==
    \/ \E f \in FuncNames, cts \in CtLists : EmitStartFunctionTrace(f, cts)
    \/ \E s \in OpenScopes, o \in HostObjects : EmitRegisterInput(s, o)
    \/ \E s \in OpenScopes, o \in HostObjects : EmitRegisterOutput(s, o)
    \/ \E s \in OpenScopes, str \in Strings : EmitRegisterOutputString(s, str)
    \/ \E s \in OpenScopes : EmitCloseScope(s)

SpecEmit == EmitInit /\ [][EmitNext]_vars

\* an output that marks: a string or key, a plaintext, a ciphertext with elements
MarksOutput(outs) ==
    \E i \in 1..Len(outs) :
       \/ outs[i].kind \in {"string", "pt"}
       \/ outs[i].kind = "ct" /\ outs[i].elems > 0

\* the instruction list grows by the instruction of scope s exactly when cond
EmitsIff(s, cond) ==
    IF cond THEN m_instructions' = Append(m_instructions, scopes[s].m_currentInstruction)
    ELSE m_instructions' = m_instructions

Getters == {"getTrace", "getFHEContext", "getTestVector"}

\* the outcome of *p on an empty unique_ptr
NullDeref == [kind |-> "null dereference"]

raceFrame == <<backend, regVars, scopeVars, m_idMap, calls, files, wipVars, m_mutex>>

RaceInit ==
    /\ backend = "protobuf-race"
    /\ RegistryInit /\ ScopeInit
    /\ m_idMap = <<>>
    /\ ProtoInit /\ NoWip /\ ThreadInit

\* the head of a getter: getFHEContext and getTestVector throw without a
\* context; otherwise the thread goes on to generateTracesIfNeeded()
RaceCall(t, call) ==
    /\ backend = "protobuf-race"
    /\ pc[t] = "idle"
    /\ IF call # "getTrace" /\ m_cryptoContext = None
       THEN /\ got' = [call |-> call, val |-> Thrown]
            /\ UNCHANGED <<pc, tlocal>>
       ELSE /\ pc' = [pc EXCEPT ![t] = "generate"]
            /\ tlocal' = [tlocal EXCEPT ![t] = [kind |-> "call", call |-> call]]
            /\ got' = NoGot
    /\ UNCHANGED <<m_instructions, m_dataObjectPool, m_cryptoContext, m_scheme, m_cachedFHETrace,
                   m_cachedContext, m_cachedTestVector, derived, raceFrame>>

\* generateTracesIfNeeded(), under the lock
RaceGenerate(t) ==
    /\ backend = "protobuf-race"
    /\ pc[t] = "generate"
    /\ SetCaches(Generated)
    /\ pc' = [pc EXCEPT ![t] = "deref"]
    /\ UNCHANGED <<m_instructions, m_dataObjectPool, m_cryptoContext, m_scheme, tlocal, got,
                   raceFrame>>

\* the cache a getter returns a copy of
CacheOf(call) ==
    IF call = "getTrace" THEN m_cachedFHETrace
    ELSE IF call = "getFHEContext" THEN m_cachedContext
    ELSE m_cachedTestVector

\* "return *m_cached...": the copy, after the lock was released
RaceDeref(t) ==
    /\ backend = "protobuf-race"
    /\ pc[t] = "deref"
    /\ got' = [call |-> tlocal[t].call,
               val |-> IF CacheOf(tlocal[t].call) = None THEN NullDeref
                       ELSE CacheOf(tlocal[t].call)]
    /\ pc' = [pc EXCEPT ![t] = "idle"]
    /\ tlocal' = [tlocal EXCEPT ![t] = None]
    /\ UNCHANGED <<m_instructions, m_dataObjectPool, m_cryptoContext, m_scheme, m_cachedFHETrace,
                   m_cachedContext, m_cachedTestVector, derived, raceFrame>>

\* reset(), under the lock
RaceReset(t) ==
    /\ backend = "protobuf-race"
    /\ pc[t] = "idle"
    /\ m_instructions' = <<>>
    /\ m_dataObjectPool' = <<>>
    /\ SetCaches([trace |-> None, context |-> None, testvector |-> None,
                  derived |-> [a \in DOMAIN derived |-> 0]])
    /\ got' = NoGot
    /\ UNCHANGED <<m_cryptoContext, m_scheme, pc, tlocal, raceFrame>>

\* setContext(cc), under the lock
RaceSetContext(t, cc) ==
    /\ backend = "protobuf-race"
    /\ pc[t] = "idle"
    /\ m_cryptoContext' = cc
    /\ m_scheme' = SchemeOf(cc)
    /\ SetCaches([trace |-> None, context |-> None, testvector |-> None,
                  derived |-> [a \in DOMAIN derived |-> 0]])
    /\ got' = NoGot
    /\ UNCHANGED <<m_instructions, m_dataObjectPool, pc, tlocal, raceFrame>>

RaceNext ==
    \/ \E t \in Threads, call \in Getters : RaceCall(t, call)
    \/ \E t \in Threads : RaceGenerate(t)
    \/ \E t \in Threads : RaceDeref(t)
    \/ \E t \in Threads : RaceReset(t)
    \/ \E t \in Threads, cc \in Contexts : RaceSetContext(t, cc)

SpecRace == RaceInit /\ [][RaceNext]_vars

\* C23: no use of an empty cache under concurrency.  Whatever reset() and
\* setContext() do on the other thread, a getter that has come to its return
\* statement finds its cached artifact present, and no getter has
\* dereferenced an empty cache.
NoEmptyCacheUse ==
    /\ \A t \in Threads : pc[t] = "deref" => CacheOf(tlocal[t].call) # None
    /\ got.val # NullDeref

(***************************************************************************)
(* The tracer mutex.  Every member function of HeraclesTracer is described *)
(* by whether its first statement is the lock_guard on m_mutex, by the     *)
(* member functions its body calls in order, and by whether it can leave   *)
(* before its calls (an early return or a throw).  A thread runs a public  *)
(* call as a stack of such frames; std::lock_guard releases on return.     *)
(***************************************************************************)
Method(locks, early, callees) == [locks |-> locks, early |-> early, callees |-> callees]

\* HeraclesTracer with getTrace taking the lock before generateTracesIfNeeded
Methods005_lockedGetter ==
    ("HeraclesTracer(filename, cc)" :> Method(FALSE, FALSE, <<"setContext">>)) @@
    ("~HeraclesTracer" :> Method(FALSE, TRUE, <<"saveTrace">>)) @@
    ("setContext" :> Method(TRUE, FALSE, <<>>)) @@
    ("generateTracesIfNeeded" :>
        Method(TRUE, TRUE, <<"extractFHEContext", "generateTestVector">>)) @@
    ("getTrace" :> Method(TRUE, FALSE, <<"generateTracesIfNeeded">>)) @@
    ("getFHEContext" :> Method(FALSE, TRUE, <<"generateTracesIfNeeded">>)) @@
    ("getTestVector" :> Method(FALSE, TRUE, <<"generateTracesIfNeeded">>)) @@
    ("saveTrace" :> Method(FALSE, FALSE, <<"getTrace", "getFilename">>)) @@
    ("saveTraceJson" :> Method(FALSE, FALSE, <<"getTrace", "getFilename">>)) @@
    ("saveDataTrace" :>
        Method(FALSE, TRUE, <<"getFHEContext", "getTestVector", "getFilename">>)) @@
    ("storeData" :> Method(TRUE, FALSE, <<>>)) @@
    ("getFilename" :> Method(FALSE, FALSE, <<>>)) @@
    ("extractFHEContext" :> Method(FALSE, FALSE, <<"extractCKKSInfo">>)) @@
    ("extractCKKSInfo" :> Method(FALSE, FALSE, <<>>)) @@
    ("generateTestVector" :> Method(FALSE, FALSE, <<"convertDCRTPolyToProtobuf">>)) @@
    ("convertDCRTPolyToProtobuf" :> Method(FALSE, FALSE, <<>>)) @@
    ("addInstruction" :> Method(TRUE, FALSE, <<>>)) @@
    ("reset" :> Method(TRUE, FALSE, <<>>))

\* HeraclesTracer of the released revision
Methods005 ==
    ("HeraclesTracer(filename, cc)" :> Method(FALSE, FALSE, <<"setContext">>)) @@
    ("~HeraclesTracer" :> Method(FALSE, TRUE, <<"saveTrace">>)) @@
    ("setContext" :> Method(TRUE, FALSE, <<>>)) @@
    ("generateTracesIfNeeded" :>
        Method(TRUE, TRUE, <<"extractFHEContext", "generateTestVector">>)) @@
    ("getTrace" :> Method(FALSE, FALSE, <<"generateTracesIfNeeded">>)) @@
    ("getFHEContext" :> Method(FALSE, TRUE, <<"generateTracesIfNeeded">>)) @@
    ("getTestVector" :> Method(FALSE, TRUE, <<"generateTracesIfNeeded">>)) @@
    ("saveTrace" :> Method(FALSE, FALSE, <<"getTrace", "getFilename">>)) @@
    ("saveTraceJson" :> Method(FALSE, FALSE, <<"getTrace", "getFilename">>)) @@
    ("saveDataTrace" :>
        Method(FALSE, TRUE, <<"getFHEContext", "getTestVector", "getFilename">>)) @@
    ("storeData" :> Method(TRUE, FALSE, <<>>)) @@
    ("getFilename" :> Method(FALSE, FALSE, <<>>)) @@
    ("extractFHEContext" :> Method(FALSE, FALSE, <<"extractCKKSInfo">>)) @@
    ("extractCKKSInfo" :> Method(FALSE, FALSE, <<>>)) @@
    ("generateTestVector" :> Method(FALSE, FALSE, <<"convertDCRTPolyToProtobuf">>)) @@
    ("convertDCRTPolyToProtobuf" :> Method(FALSE, FALSE, <<>>)) @@
    ("addInstruction" :> Method(TRUE, FALSE, <<>>)) @@
    ("reset" :> Method(TRUE, FALSE, <<>>))

Public005 ==
    {"HeraclesTracer(filename, cc)", "~HeraclesTracer", "setContext", "getTrace",
     "getFHEContext", "getTestVector", "saveTrace", "saveTraceJson", "saveDataTrace",
     "storeData", "addInstruction", "reset"}

\* HeraclesTracer of the in-progress revision
MethodsWip ==
    ("addInstruction" :> Method(TRUE, FALSE, <<"_initializeTrace">>)) @@
    ("hasData" :> Method(TRUE, FALSE, <<"_initializeTestVector">>)) @@
    ("storeData" :> Method(TRUE, FALSE, <<"_initializeTestVector">>)) @@
    ("saveBinaryTrace" :>
        Method(TRUE, FALSE, <<"_initializeTrace", "_initializeContext", "_initializeTestVector">>)) @@
    ("saveJsonTrace" :>
        Method(TRUE, FALSE, <<"_initializeTrace", "_initializeContext", "_initializeTestVector">>)) @@
    ("getCryptoContext" :> Method(FALSE, FALSE, <<>>)) @@
    ("~HeraclesTracer" :> Method(FALSE, FALSE, <<>>)) @@
    ("_initializeTrace" :> Method(FALSE, FALSE, <<"_initializeContext">>)) @@
    ("_initializeContext" :> Method(FALSE, TRUE, <<>>)) @@
    ("_initializeTestVector" :> Method(FALSE, FALSE, <<>>))

PublicWip ==
    {"addInstruction", "hasData", "storeData", "saveBinaryTrace", "saveJsonTrace",
     "getCryptoContext", "~HeraclesTracer"}

LockBackends == {"protobuf-lock", "protobuf-wip-lock"}

Methods == IF backend = "protobuf-lock" THEN Methods005 ELSE MethodsWip

Public == IF backend = "protobuf-lock" THEN Public005 ELSE PublicWip

lockFrame == <<backend, regVars, scopeVars, m_idMap, m_instructions, m_dataObjectPool,
               m_cryptoContext, m_scheme, m_cachedFHETrace, m_cachedContext,
               m_cachedTestVector, derived, files, got, wipVars>>

\* one tracer of either revision, shared by the threads; nobody holds m_mutex
LockInit ==
    /\ backend \in LockBackends
    /\ RegistryInit /\ ScopeInit
    /\ m_idMap = <<>>
    /\ ProtoInit /\ NoWip
    /\ pc = [t \in Threads |-> "idle"]
    /\ tlocal = [t \in Threads |-> <<>>]
    /\ m_mutex = 0

\* the innermost frame of thread t
Top(t) == tlocal[t][Len(tlocal[t])]

\* thread t calls the public member function m
LockCall(t, m) ==
    /\ backend \in LockBackends
    /\ pc[t] = "idle"
    /\ calls < MaxCalls
    /\ m \in Public
    /\ tlocal' = [tlocal EXCEPT ![t] = <<[m |-> m, i |-> 1, held |-> FALSE]>>]
    /\ pc' = [pc EXCEPT ![t] = "enter"]
    /\ calls' = calls + 1
    /\ UNCHANGED <<m_mutex, lockFrame>>

\* the first statement of the function entered: std::lock_guard<std::mutex>
\* lock(m_mutex) blocks while another thread holds the mutex; locking a
\* std::mutex the thread already owns never returns
LockEnter(t) ==
    /\ backend \in LockBackends
    /\ pc[t] = "enter"
    /\ IF ~Methods[Top(t).m].locks
       THEN /\ pc' = [pc EXCEPT ![t] = "run"]
            /\ UNCHANGED <<tlocal, m_mutex>>
       ELSE IF m_mutex = t
       THEN /\ pc' = [pc EXCEPT ![t] = "deadlock"]
            /\ UNCHANGED <<tlocal, m_mutex>>
       ELSE /\ m_mutex = 0
            /\ m_mutex' = t
            /\ tlocal' = [tlocal EXCEPT ![t][Len(tlocal[t])].held = TRUE]
            /\ pc' = [pc EXCEPT ![t] = "run"]
    /\ UNCHANGED <<calls, lockFrame>>

\* the next call in the body of the innermost function
LockInvoke(t) ==
    /\ backend \in LockBackends
    /\ pc[t] = "run"
    /\ Top(t).i <= Len(Methods[Top(t).m].callees)
    /\ tlocal' = [tlocal EXCEPT ![t] =
                     Append([@ EXCEPT ![Len(@)].i = @ + 1],
                            [m |-> Methods[Top(t).m].callees[Top(t).i], i |-> 1,
                             held |-> FALSE])]
    /\ pc' = [pc EXCEPT ![t] = "enter"]
    /\ UNCHANGED <<calls, m_mutex, lockFrame>>

\* the innermost function returns (after its calls, or before them where it
\* has an early return or a throw); its lock_guard, if any, unlocks
LockReturn(t) ==
    /\ backend \in LockBackends
    /\ pc[t] = "run"
    /\ \/ Top(t).i > Len(Methods[Top(t).m].callees)
       \/ Methods[Top(t).m].early /\ Top(t).i = 1
    /\ m_mutex' = IF Top(t).held THEN 0 ELSE m_mutex
    /\ tlocal' = [tlocal EXCEPT ![t] = SubSeq(@, 1, Len(@) - 1)]
    /\ pc' = [pc EXCEPT ![t] = IF Len(tlocal[t]) = 1 THEN "idle" ELSE "run"]
    /\ UNCHANGED <<calls, lockFrame>>

LockNext ==
    \/ \E t \in Threads, m \in Public005 \cup PublicWip : LockCall(t, m)
    \/ \E t \in Threads : LockEnter(t)
    \/ \E t \in Threads : LockInvoke(t)
    \/ \E t \in Threads : LockReturn(t)

\* a thread inside a call is scheduled again
SpecLock ==
    /\ LockInit /\ [][LockNext]_vars
    /\ \A t \in Threads : WF_vars(LockEnter(t) \/ LockInvoke(t) \/ LockReturn(t))

\* no thread has locked the mutex it holds, and the mutex is held exactly by
\* the thread with a locking frame on its stack
NoRelock ==
    /\ \A t \in Threads : pc[t] # "deadlock"
    /\ \A t \in Threads :
          m_mutex = t <=> \E k \in 1..Len(tlocal[t]) : tlocal[t][k].held
    /\ \A t \in Threads :
          Cardinality({k \in 1..Len(tlocal[t]) : Methods[tlocal[t][k].m].locks}) <= 1

\* C28: no self-deadlock on the tracer mutex.  No member function takes
\* m_mutex while its thread already holds it (no stack of calls has two
\* locking functions), and every public call that a thread has started
\* returns, with the mutex released.
NoSelfDeadlock ==
    /\ []NoRelock
    /\ \A t \in Threads : (pc[t] # "idle") ~> (pc[t] = "idle" /\ m_mutex # t)

\* a thread is inside generateTestVector, called by generateTracesIfNeeded
\* with the mutex held, three calls deep in a public call
NoSelfDeadlockWitness ==
    \E t \in Threads :
       /\ m_mutex = t
       /\ Len(tlocal[t]) >= 3
       /\ pc[t] = "run"
       /\ \E u \in Threads : u # t /\ pc[u] = "enter" /\ Methods[Top(u).m].locks

(***************************************************************************)
(* The truncating renderers of the buffered text tracer (simpletracer.h):  *)
(* formatVector, registerOutput(vector<EvalKey>) and registerOutput of an  *)
(* eval-key map, called on one open scope                                  *)
(***************************************************************************)
MapBreakCount == 10     \* "if (++count >= 10)"

\* the i-th evaluation key the host holds; keys differ in content
KeyAt(i) == [kind |-> "key", ptr |-> i, bytes |-> i, elems |-> 1]

\* formatVector's loop: element i is written, then "if (i >= 10)" writes the
\* marker with values.size() - i - 1 and breaks
RECURSIVE SimpleFormatVectorLoop(_, _, _)
SimpleFormatVectorLoop(values, i, elems) ==
    IF i >= Len(values)
    THEN [elems |-> elems, more |-> NoMore]
    ELSE IF i >= VecBreakIndex
         THEN [elems |-> Append(elems, values[i + 1]), more |-> Len(values) - i - 1]
         ELSE SimpleFormatVectorLoop(values, i + 1, Append(elems, values[i + 1]))

\* formatVector(values, typeName)
SimpleFormatVector(values, typeName) ==
    LET r == SimpleFormatVectorLoop(values, 0, <<>>)
    IN  [elems |-> r.elems, more |-> r.more, type |-> typeName]

\* the loop of registerOutput(evalKeyMap): each pair is named and written,
\* then "if (++count >= 10)" writes the marker with size() - count and breaks
RECURSIVE registerMapLoop(_, _, _, _)
registerMapLoop(reg, n, count, ids) ==
    IF count >= n
    THEN [uid |-> reg.uid, ctr |-> reg.ctr, ids |-> ids, more |-> NoMore]
    ELSE LET r == registerObjectHelper(reg, KeyAt(count + 1), "eval_key", "", <<>>)
             shown == Append(ids, <<count + 1, r.id>>)
         IN  IF count + 1 >= MapBreakCount
             THEN [uid |-> r.uid, ctr |-> r.ctr, ids |-> shown, more |-> n - (count + 1)]
             ELSE registerMapLoop([uid |-> r.uid, ctr |-> r.ctr], n, count + 1, shown)

vecFrame == <<backend, resolved, stream, ret, lifo, m_idMap, m_instructions,
              m_dataObjectPool, m_cryptoContext, m_scheme, m_cachedFHETrace, m_cachedContext,
              m_cachedTestVector, derived, files, wipVars, thrVars>>

\* SimpleTracer(stream); the registry also counts evaluation keys
VecInit ==
    /\ backend = "text-vectors"
    /\ m_uniqueID = <<>> /\ resolved = {}
    /\ m_counters = [t \in TypeTags \cup {"eval_key"} |-> 0]
    /\ ScopeInit
    /\ m_idMap = <<>>
    /\ ProtoInit /\ NoWip /\ ThreadInit

\* StartFunctionTrace(func): the one scope the renderers are called on
VecStartFunctionTrace(func) ==
    /\ backend = "text-vectors"
    /\ opened = 0
    /\ scopes' = (1 :> [m_func |-> func, m_level |-> m_level, m_inputs |-> <<>>,
                         m_outputs |-> <<>>]) @@ scopes
    /\ m_level' = m_level + 1
    /\ opened' = 1
    /\ got' = NoGot
    /\ UNCHANGED <<m_uniqueID, m_counters, regs, calls, vecFrame>>

\* registerInput(const std::vector<int64_t>& values, name)
VecRegisterInputValues(s, values, name) ==
    /\ backend = "text-vectors"
    /\ s \in OpenScopes
    /\ calls < MaxCalls
    /\ LET e == SimpleFormatVector(values, "vector<int64_t>")
       IN  /\ scopes' = [scopes EXCEPT ![s].m_inputs =
                            Append(@, [name |-> name, elems |-> e.elems, more |-> e.more,
                                       type |-> e.type])]
           /\ got' = [call |-> "formatVector", of |-> Len(values), val |-> None,
                      shown |-> Len(e.elems), more |-> e.more]
    /\ calls' = calls + 1
    /\ UNCHANGED <<m_uniqueID, m_counters, m_level, opened, regs, vecFrame>>

\* registerOutput(std::vector<EvalKey> evalKeys, name), of the keys 1..n
VecRegisterOutputKeys(s, n, name) ==
    /\ backend = "text-vectors"
    /\ s \in OpenScopes
    /\ calls < MaxCalls
    /\ LET r == registerVectorLoop(Registry, [i \in 1..n |-> KeyAt(i)], 0, "eval_key", <<>>, {})
       IN  /\ scopes' = [scopes EXCEPT ![s].m_outputs =
                            Append(@, [name |-> name, ids |-> r.ids, more |-> r.more,
                                       type |-> "vector<EvalKey>"])]
           /\ m_uniqueID' = r.uid
           /\ m_counters' = r.ctr
           /\ got' = [call |-> "registerOutput(vector<EvalKey>)", of |-> n, val |-> None,
                      shown |-> Len(r.ids), more |-> r.more]
    /\ calls' = calls + 1
    /\ UNCHANGED <<m_level, opened, regs, vecFrame>>

\* registerOutput(evalKeyMap, name), of the map {1: key 1, ..., n: key n}
VecRegisterOutputKeyMap(s, n, name) ==
    /\ backend = "text-vectors"
    /\ s \in OpenScopes
    /\ calls < MaxCalls
    /\ LET r == registerMapLoop(Registry, n, 0, <<>>)
       IN  /\ scopes' = [scopes EXCEPT ![s].m_outputs =
                            Append(@, [name |-> name, ids |-> r.ids, more |-> r.more,
                                       type |-> "map<uint32_t, EvalKey>"])]
           /\ m_uniqueID' = r.uid
           /\ m_counters' = r.ctr
           /\ got' = [call |-> "registerOutput(evalKeyMap)", of |-> n, val |-> None,
                      shown |-> Len(r.ids), more |-> r.more]
    /\ calls' = calls + 1
    /\ UNCHANGED <<m_level, opened, regs, vecFrame>>

VecNext ==
    \/ \E f \in FuncNames : VecStartFunctionTrace(f)
    \/ \E s \in OpenScopes, values \in Int64Vectors, n \in Names :
          VecRegisterInputValues(s, values, n)
    \/ \E s \in OpenScopes, k \in 0..MaxVecLen, n \in Names : VecRegisterOutputKeys(s, k, n)
    \/ \E s \in OpenScopes, k \in 0..MaxVecLen, n \in Names : VecRegisterOutputKeyMap(s, k, n)

SpecVec == VecInit /\ [][VecNext]_vars

\* C31: truncation markers of the buffered text tracer appear only when
\* something was omitted.  Whatever container a renderer has just written, a
\* "...(k more)" marker is in the entry only if k > 0, and the number of
\* rendered elements plus k is the length of the container.
MarkerOnlyWhenOmitted ==
    got.call \in {"formatVector", "registerOutput(vector<EvalKey>)",
                  "registerOutput(evalKeyMap)"} =>
       /\ got.more # NoMore => got.more > 0
       /\ got.shown + (IF got.more = NoMore THEN 0 ELSE got.more) = got.of

(***************************************************************************)
(* registerOutput(KeyPair) in the text tracers: the buffered revision      *)
(* (simpletracer.h) and the streaming revisions (part_000, part_006),      *)
(* whose overloads are the same text                                       *)
(***************************************************************************)
KeyPairBackends == {"text-keypair", "text-stream-keypair"}

PairNames == {"", "kp"}

NullKey == [kind |-> "null", ptr |-> 0, bytes |-> 0, elems |-> 0]

PublicKeys == {NullKey, [kind |-> "key", ptr |-> 1, bytes |-> 1, elems |-> 1]}

PrivateKeys == {NullKey, [kind |-> "key", ptr |-> 2, bytes |-> 2, elems |-> 1]}

KeyPairs == [publicKey : PublicKeys, secretKey : PrivateKeys]

\* simpletracer.h: each present key under name + "_public" / name + "_private"
SimpleRegisterOutputKeyPair(reg, keyPair, name, target) ==
    LET r1 == IF keyPair.publicKey # NullKey
              THEN registerObjectHelper(reg, keyPair.publicKey, "public_key",
                                        name \o "_public", target)
              ELSE [uid |-> reg.uid, ctr |-> reg.ctr, target |-> target]
        r2 == IF keyPair.secretKey # NullKey
              THEN registerObjectHelper([uid |-> r1.uid, ctr |-> r1.ctr], keyPair.secretKey,
                                        "private_key", name \o "_private", r1.target)
              ELSE r1
    IN  [uid |-> r2.uid, ctr |-> r2.ctr, target |-> r2.target, ret |-> keyPair]

\* part_000 / part_006: name = name.empty() ? "" : name + "_public" before the
\* public key, name = name.empty() ? "" : name + "_private" before the private
\* key; the parameter itself is assigned
StreamRegisterOutputKeyPair(reg, keyPair, name, lines) ==
    LET name1 == IF keyPair.publicKey # NullKey
                 THEN (IF name = "" THEN "" ELSE name \o "_public") ELSE name
        g1 == IF keyPair.publicKey # NullKey
              THEN getObjectId(reg, keyPair.publicKey, "public_key")
              ELSE [uid |-> reg.uid, ctr |-> reg.ctr, id |-> <<"none", 0>>]
        l1 == IF keyPair.publicKey # NullKey
              THEN Append(lines, [name |-> name1, id |-> g1.id]) ELSE lines
        name2 == IF keyPair.secretKey # NullKey
                 THEN (IF name1 = "" THEN "" ELSE name1 \o "_private") ELSE name1
        g2 == IF keyPair.secretKey # NullKey
              THEN getObjectId([uid |-> g1.uid, ctr |-> g1.ctr], keyPair.secretKey,
                               "private_key")
              ELSE g1
        l2 == IF keyPair.secretKey # NullKey
              THEN Append(l1, [name |-> name2, id |-> g2.id]) ELSE l1
    IN  [uid |-> g2.uid, ctr |-> g2.ctr, target |-> l2, ret |-> keyPair]

keyPairFrame == <<backend, resolved, ret, lifo, m_idMap, m_instructions,
                  m_dataObjectPool, m_cryptoContext, m_scheme, m_cachedFHETrace,
                  m_cachedContext, m_cachedTestVector, derived, files, wipVars, thrVars>>

\* a text tracer of either revision on a stream; the registry also counts keys
KeyPairInit ==
    /\ backend \in KeyPairBackends
    /\ m_uniqueID = <<>> /\ resolved = {}
    /\ m_counters = [t \in TypeTags \cup {"public_key", "private_key"} |-> 0]
    /\ ScopeInit
    /\ m_idMap = <<>>
    /\ ProtoInit /\ NoWip /\ ThreadInit

\* StartFunctionTrace(func): the scope the key pairs are registered on
KeyPairStartFunctionTrace(func) ==
    /\ backend \in KeyPairBackends
    /\ opened = 0
    /\ IF backend = "text-keypair"
       THEN /\ scopes' = (1 :> [m_func |-> func, m_level |-> m_level, m_inputs |-> <<>>,
                                 m_outputs |-> <<>>]) @@ scopes
            /\ m_level' = m_level + 1
            /\ stream' = stream
       ELSE /\ m_level' = m_level + IndentStep
            /\ stream' = Append(stream, [sid |-> 1, tabs |-> m_level', kind |-> "header",
                                          func |-> func])
            /\ scopes' = (1 :> [m_func |-> func, m_level |-> m_level' + 1]) @@ scopes
    /\ opened' = 1
    /\ got' = NoGot
    /\ UNCHANGED <<m_uniqueID, m_counters, regs, calls, keyPairFrame>>

\* registerOutput(KeyPair keyPair, name): the buffered revision appends to
\* m_outputs, the streaming revisions print a line for each key
RegisterOutputKeyPair(s, keyPair, name) ==
    /\ backend \in KeyPairBackends
    /\ s \in OpenScopes
    /\ calls < MaxCalls
    /\ LET r == IF backend = "text-keypair"
                THEN SimpleRegisterOutputKeyPair(Registry, keyPair, name, <<>>)
                ELSE StreamRegisterOutputKeyPair(Registry, keyPair, name, <<>>)
       IN  /\ IF backend = "text-keypair"
              THEN /\ scopes' = [scopes EXCEPT ![s].m_outputs = @ \o r.target]
                   /\ stream' = stream
              ELSE /\ stream' = stream \o [i \in 1..Len(r.target) |->
                                           [sid |-> s, tabs |-> scopes[s].m_level,
                                            kind |-> "object", inOut |-> "output",
                                            name |-> r.target[i].name, id |-> r.target[i].id]]
                   /\ scopes' = scopes
           /\ m_uniqueID' = r.uid
           /\ m_counters' = r.ctr
           /\ got' = [call |-> "registerOutput(KeyPair)", val |-> None, keyPair |-> keyPair,
                      name |-> name, registered |-> r.target]
    /\ calls' = calls + 1
    /\ UNCHANGED <<m_level, opened, regs, keyPairFrame>>

KeyPairNext ==
    \/ \E f \in FuncNames : KeyPairStartFunctionTrace(f)
    \/ \E s \in OpenScopes, kp \in KeyPairs, n \in PairNames : RegisterOutputKeyPair(s, kp, n)

SpecKeyPair == KeyPairInit /\ [][KeyPairNext]_vars

\* C32: key-pair output naming.  In every text-tracer variant, a key pair
\* registered as an output under a non-empty name n has its public key
\* registered under n_public and its private key under n_private, each only
\* if present, whether or not both are present.
KeyPairNaming ==
    (got.call = "registerOutput(KeyPair)" /\ got.name # "") =>
       [i \in 1..Len(got.registered) |-> got.registered[i].name] =
          (IF got.keyPair.publicKey # NullKey THEN <<got.name \o "_public">> ELSE <<>>)
          \o (IF got.keyPair.secretKey # NullKey THEN <<got.name \o "_private">> ELSE <<>>)

(***************************************************************************)
(* Function scopes and data-movement scopes on one address-keyed text      *)
(* tracer (part_002): both kinds capture m_level when created; only the    *)
(* function scope advances it and gives it back                            *)
(***************************************************************************)
nestFrame == <<backend, regVars, regs, lifo, m_idMap, protoVars, wipVars, thrVars>>

\* SimpleTracer(stream)
NestInit ==
    /\ backend = "text-nest"
    /\ RegistryInit /\ ScopeInit
    /\ m_idMap = <<>>
    /\ ProtoInit /\ NoWip /\ ThreadInit

\* SimpleTracer::TraceCryptoContextEvalFunc(func): size_t level = m_level++
NestStartFunctionTrace(func) ==
    /\ backend = "text-nest"
    /\ opened < MaxOps
    /\ scopes' = ((opened + 1) :> [kind |-> "function", m_name |-> func, m_level |-> m_level])
                 @@ scopes
    /\ m_level' = m_level + 1
    /\ opened' = opened + 1
    /\ UNCHANGED <<stream, ret, nestFrame>>

\* SimpleTracer::TraceDataUpdate(function_name): size_t level = m_level
NestTraceDataUpdate(label) ==
    /\ backend = "text-nest"
    /\ opened < MaxOps
    /\ scopes' = ((opened + 1) :> [kind |-> "data", m_name |-> label, m_level |-> m_level])
                 @@ scopes
    /\ opened' = opened + 1
    /\ UNCHANGED <<m_level, stream, ret, nestFrame>>

\* ~SimpleFunctionTracer: the line at the scope's level, then EndFunction()
NestCloseFunction(s) ==
    /\ backend = "text-nest"
    /\ s \in OpenScopes /\ scopes[s].kind = "function"
    /\ stream' = Append(stream, [sid |-> s, kind |-> "function", tabs |-> scopes[s].m_level,
                                 text |-> scopes[s].m_name])
    /\ m_level' = EndFunction(m_level)
    /\ scopes' = RemoveKey(scopes, s)
    /\ UNCHANGED <<opened, ret, nestFrame>>

\* a ~SimpleDataTracer that gives a level back, as a function scope does
NestCloseData_endFunction(s) ==
    /\ backend = "text-nest"
    /\ s \in OpenScopes /\ scopes[s].kind = "data"
    /\ stream' = Append(stream, [sid |-> s, kind |-> "data", tabs |-> scopes[s].m_level,
                                 text |-> scopes[s].m_name])
    /\ m_level' = EndFunction(m_level)
    /\ scopes' = RemoveKey(scopes, s)
    /\ UNCHANGED <<opened, ret, nestFrame>>

\* ~SimpleDataTracer: the line at the scope's level; the tracer is not called
NestCloseData(s) ==
    /\ backend = "text-nest"
    /\ s \in OpenScopes /\ scopes[s].kind = "data"
    /\ stream' = Append(stream, [sid |-> s, kind |-> "data", tabs |-> scopes[s].m_level,
                                 text |-> scopes[s].m_name])
    /\ scopes' = RemoveKey(scopes, s)
    /\ UNCHANGED <<m_level, opened, ret, nestFrame>>

NestNext ==
    \/ \E f \in FuncNames : NestStartFunctionTrace(f)
    \/ \E l \in FuncNames : NestTraceDataUpdate(l)
    \/ \E s \in OpenScopes : NestCloseFunction(s)
    \/ \E s \in OpenScopes : NestCloseData(s)

SpecNest == NestInit /\ [][NestNext]_vars

\* the open scopes of one kind
ScopesOfKind(sc, k) == {s \in DOMAIN sc : sc[s].kind = k}

\* the nesting level counts the open function scopes and nothing else
LevelCountsFunctions == m_level = Cardinality(ScopesOfKind(scopes, "function"))

DataScopeStep ==
    /\ \A s \in ScopesOfKind(scopes', "data") \ DOMAIN scopes :
          m_level' = m_level /\ scopes'[s].m_level = m_level /\ stream' = stream
    /\ \A s \in ScopesOfKind(scopes, "data") \ DOMAIN scopes' :
          /\ m_level' = m_level
          /\ Len(stream') = Len(stream) + 1
          /\ SubSeq(stream', 1, Len(stream)) = stream
          /\ stream'[Len(stream')].kind = "data"
          /\ stream'[Len(stream')].tabs = scopes[s].m_level
    /\ \A s \in ScopesOfKind(scopes', "function") \ DOMAIN scopes :
          scopes'[s].m_level = Cardinality(ScopesOfKind(scopes, "function"))

\* C33: data-movement tracing does not disturb nesting.  TraceDataUpdate
\* leaves the nesting level as it is and its scope captures it; destroying
\* the data scope writes exactly one line, indented by the captured level,
\* and leaves the level as it is; so the level always counts the open
\* function scopes, and a function scope opened around or after a data scope
\* is indented by the number of function scopes open at that moment.
DataTracingKeepsNesting == []LevelCountsFunctions /\ [][DataScopeStep]_vars

\* a data scope created inside a function scope was destroyed after that
\* function scope had closed: its line, the last written, is indented by the
\* captured level, which is no longer the current one
DataTracingKeepsNestingWitness ==
    /\ stream # <<>>
    /\ stream[Len(stream)].kind = "data"
    /\ stream[Len(stream)].tabs > m_level
    /\ \E k \in 1..Len(stream) : stream[k].kind = "function"

(***************************************************************************)
(* One content registered under several type tags, in the two hash-based   *)
(* text tracers: registerObjectHelper (simpletracer.h) and getID /          *)
(* registerObject (part_000)                                               *)
(***************************************************************************)
TagBackends == {"text-tags", "text-stream-tags"}

tagFrame == <<backend, resolved, ret, lifo, m_idMap, calls, m_instructions, m_dataObjectPool,
              m_cryptoContext, m_scheme, m_cachedFHETrace, m_cachedContext,
              m_cachedTestVector, derived, files, wipVars, thrVars>>

\* a text tracer of either revision on a stream
TagInit ==
    /\ backend \in TagBackends
    /\ RegistryInit /\ ScopeInit
    /\ m_idMap = <<>>
    /\ ProtoInit /\ NoWip /\ ThreadInit

\* StartFunctionTrace(func): the scope the objects are registered on
TagStartFunctionTrace(func) ==
    /\ backend \in TagBackends
    /\ opened = 0
    /\ IF backend = "text-tags"
       THEN /\ scopes' = (1 :> [m_func |-> func, m_level |-> m_level, m_inputs |-> <<>>,
                                 m_outputs |-> <<>>]) @@ scopes
            /\ m_level' = m_level + 1
            /\ stream' = stream
       ELSE /\ m_level' = m_level + IndentStep
            /\ stream' = Append(stream, [sid |-> 1, tabs |-> m_level', kind |-> "header",
                                          func |-> func])
            /\ scopes' = (1 :> [m_func |-> func, m_level |-> m_level' + 1]) @@ scopes
    /\ opened' = 1
    /\ got' = NoGot
    /\ UNCHANGED <<m_uniqueID, m_counters, regs, tagFrame>>

\* registerInput(Ciphertext | ConstCiphertext | Plaintext, name) with the type
\* tag of the overload called
TagRegisterInput(s, obj, type, name) ==
    /\ backend \in TagBackends
    /\ s \in OpenScopes
    /\ regs < MaxOps
    /\ IF backend = "text-tags"
       THEN LET r == registerObjectHelper(Registry, obj, type, name, scopes[s].m_inputs)
            IN  /\ scopes' = [scopes EXCEPT ![s].m_inputs = r.target]
                /\ stream' = stream
                /\ m_uniqueID' = r.uid
                /\ m_counters' = r.ctr
                /\ got' = [call |-> "registerInput", val |-> None, type |-> type,
                           hash |-> r.hash, id |-> r.id]
       ELSE LET g == getObjectId(Registry, obj, type)
            IN  /\ stream' = Append(stream, [sid |-> s, tabs |-> scopes[s].m_level,
                                             kind |-> "object", inOut |-> "input",
                                             name |-> name, id |-> g.id, type |-> type])
                /\ scopes' = scopes
                /\ m_uniqueID' = g.uid
                /\ m_counters' = g.ctr
                /\ got' = [call |-> "registerInput", val |-> None, type |-> type,
                           hash |-> g.hash, id |-> g.id]
    /\ regs' = regs + 1
    /\ UNCHANGED <<m_level, opened, tagFrame>>

TagNext ==
    \/ \E f \in FuncNames : TagStartFunctionTrace(f)
    \/ \E s \in OpenScopes, o \in Ciphertexts \cup Plaintexts, n \in Names :
          \E t \in TagsOf(o) : TagRegisterInput(s, o, t, n)

SpecTag == TagInit /\ [][TagNext]_vars

TagStep ==
    (got'.call = "registerInput" /\ regs' # regs) =>
       IF got'.hash \in DOMAIN m_uniqueID
       THEN /\ got'.id = m_uniqueID[got'.hash]
            /\ m_uniqueID' = m_uniqueID
            /\ m_counters' = m_counters
       ELSE /\ got'.id = MakeId(got'.type, m_counters[got'.type] + 1)
            /\ m_uniqueID' = (got'.hash :> got'.id) @@ m_uniqueID
            /\ m_counters' = [m_counters EXCEPT ![got'.type] = @ + 1]

\* C34: a name keeps the type tag of its first registration.  In the
\* hash-based registries the first registration of a content mints its name
\* from the tag of that call; every later registration of the content, under
\* that tag or another, reuses the name with the first tag's prefix and
\* advances no counter.
FirstTagKept == [][TagStep]_vars

\* a content was just registered under a tag other than the one in its
\* name, and the counter of the tag of this call has never been advanced
FirstTagKeptWitness ==
    /\ got.call = "registerInput"
    /\ got.id[1] # got.type
    /\ m_counters[got.type] = 0
    /\ m_counters[got.id[1]] = 1

(***************************************************************************)
BackendsInit == TextInit \/ NullInit \/ MlirInit \/ HeraInit \/ WipInit

BackendsNext == TextNext \/ NullNext \/ MlirNext \/ HeraNext \/ WipNext

SpecBackends == BackendsInit /\ [][BackendsNext]_vars


\* C15: symbolic names are durable.  In the hash-based registries every step
\* (a registration, a scope open or close, a save, setContext, reset) keeps
\* each entry of the hash-to-name map as it was, never lowers a per-type
\* counter, and leaves no two hashes with the same name.
NamesDurable ==
    [][/\ \A h \in DOMAIN m_uniqueID :
             h \in DOMAIN m_uniqueID' /\ m_uniqueID'[h] = m_uniqueID[h]
       /\ \A t \in DOMAIN m_counters : m_counters'[t] >= m_counters[t]
       /\ \A h, g \in DOMAIN m_uniqueID' : h # g => m_uniqueID'[h] # m_uniqueID'[g]]_vars

\* after reset() emptied the data pool, a ciphertext whose data had been
\* stored still has its name
NamesDurableWitness ==
    /\ backend = "protobuf"
    /\ m_dataObjectPool = <<>>
    /\ \E c \in Ciphertexts : HashString(Serialize(c)) \in DOMAIN m_uniqueID
    /\ \E t \in TypeTags : m_counters[t] > 0

\* C3: pass-through.  Whatever backend is installed and whatever was
\* registered before, the registerOutput call just made returned exactly the
\* value it was given: the same handle (null and element-less handles
\* included), the same vector, the same string, the same number.
PassThrough == ret.kind # "none" => ret.val = ret.arg

\* the protobuf backend has just been given a null handle as the output of a
\* scope that holds registered inputs, and returned it
PassThroughWitness ==
    /\ backend = "protobuf"
    /\ ret.kind = "handle" /\ ret.arg = NullObj /\ ret.val = NullObj
    /\ \E s \in OpenScopes : scopes[s].m_inputObjectIds # <<>>

====
